---------------------------- MODULE Spec2Model ----------------------------
(***************************************************************************)
(* A model of the game outcome prediction engine:                          *)
(*   - core/management/commands/load_real_data.py  (TeamTracker and the    *)
(*     chronological pass process_games_chronologically),                  *)
(*   - core/services/prediction_model.py  (NBAPredictor, predict_game),    *)
(*   - core/services/ml_predictor.py      (MLPredictor, get_ml_predictor), *)
(*   - core/services/nba_api.py           (sync_games_from_api),           *)
(*   - core/management/commands/train_ml_model.py  (saving the bundle),    *)
(*   - core/management/commands/fetch_historical_data.py and               *)
(*     load_historical_csv.py  (_calculate_features).                      *)
(*                                                                         *)
(* Python floats are modelled as fixed-point integers.  Units:             *)
(*   probabilities            parts per million (0.54 is 540000)           *)
(*   tracker Elo, points      thousandths       (1500.0 is 1500000)        *)
(*   Decimal(places=1) fields tenths            (1500.0 is 15000)          *)
(*   Decimal(places=2) fields hundredths                                   *)
(*   Decimal(places=3) fields thousandths                                  *)
(* exp, log and pow are tabulated at the resolution of these units.        *)
(***************************************************************************)
EXTENDS Integers, Sequences, FiniteSets, TLC

(***************************************************************************)
(* Bounds of the model.                                                    *)
(***************************************************************************)
MaxGames == 2
MaxDate == 3
MaxEloGames == 2
MaxSyncGames == 2
MaxSyncDate == 2
MaxSyncRuns == 3
MaxTrainRuns == 3
MaxTrackDate == 9
MaxTrackGames == 8
MaxHistGames == 3
MaxHistDate == 5
MaxRollGames == 16

VARIABLES
    \* ---- process_games_chronologically (load_real_data.py) ----
    all_games,      \* the list fetched from the API, in arrival order
    pass_input,     \* the list handed to the current run of the pass
    pc,             \* position of the pass
    completed,      \* sorted games with status Final
    scheduled,      \* sorted games with any other status
    idx,            \* loop index into completed or scheduled
    trackers,       \* abbreviation -> TeamTracker
    h2h_records,    \* sorted abbreviation pair -> tallies
    games_db,       \* Game rows, keyed by (date, home_team, away_team)
    teams_db,       \* Team rows, keyed by abbreviation
    team_var,       \* the local variable `team` of the pass
    run_no,         \* 1: the run over the full list, 2: the re-run on a prefix,
                    \* 3: the re-run on the list in another order
    cut_date,       \* the date D of the re-run's prefix
    full_db,        \* the Game rows as the first run left them
    full_trackers,  \* the trackers as the first run left them
    \* ---- Elo updaters applied to a sequence of results ----
    tracker_elo,    \* abbreviation -> TeamTracker.elo
    model_elo,      \* abbreviation -> Team.elo_rating
    elo_last,       \* the last update: ratings before, after and the deltas returned
    elo_games,      \* number of results applied
    \* ---- sync_games_from_api (nba_api.py) ----
    api_games,      \* what the API returns for the date window
    sync_teams,     \* Team rows
    sync_games,     \* Game rows
    sync_pc,        \* position of the sync loop
    sync_idx,       \* loop index into api_games
    sync_run,       \* number of the current run
    sync_applied,   \* game key -> times update_team_after_game ran for it
    sync_before,    \* Team rows as they were when the current run began
    sync_quiet,     \* the current run sees no game Final for the first time
    sync_picks,     \* UserPick rows of one user, keyed by game
    sync_profile,   \* that user's UserProfile
    \* ---- predict_game (prediction_model.py, ml_predictor.py) ----
    artifact,       \* the trained bundle on disk
    ml_instance,    \* get_ml_predictor._instance
    call,           \* the arguments and learned-model behaviour of the last call
    result,         \* what the last call returned
    \* ---- train_ml_model saving while MLPredictor() loads ----
    train_run,      \* number of the last training run that saved or is saving
    train_pc,       \* 0, or the part (1..4) the save is at
    train_open,     \* the file of that part is open for writing
    load_pc,        \* 0, or the part (1..4) _load_models is at
    loading,        \* the MLPredictor under construction
    \* ---- one TeamTracker recording games and answering queries ----
    the_tracker,    \* the TeamTracker
    recorded,       \* every game date it was given, in order
    asked,          \* the last query: date, rest_days and is_3in4 answered
    \* ---- _calculate_features over the HistoricalGame rows ----
    hist_games,     \* HistoricalGame.objects.order_by('date')
    hist_idx,       \* loop index into hist_games
    team_stats,     \* abbreviation -> running statistics
    h2h_by_season,  \* season -> sorted abbreviation pair -> tallies
    \* ---- one team's results fed to a TeamTracker and to team_stats ----
    roll_tracker,   \* the TeamTracker
    roll_stats,     \* the team's entry of team_stats
    roll_results    \* every result it was given, in order

passVars == <<all_games, pass_input, pc, completed, scheduled, idx, trackers,
              h2h_records, games_db, teams_db, team_var, run_no, cut_date, full_db,
              full_trackers>>
eloVars == <<tracker_elo, model_elo, elo_last, elo_games>>
syncVars == <<api_games, sync_teams, sync_games, sync_pc, sync_idx, sync_run,
              sync_applied, sync_before, sync_quiet, sync_picks, sync_profile>>
predVars == <<artifact, ml_instance, call, result>>
trainVars == <<train_run, train_pc, train_open, load_pc, loading>>
trackVars == <<the_tracker, recorded, asked>>
histVars == <<hist_games, hist_idx, team_stats, h2h_by_season>>
rollVars == <<roll_tracker, roll_stats, roll_results>>
vars == <<passVars, eloVars, syncVars, predVars, trainVars, trackVars, histVars,
          rollVars>>
\* what each part of the model leaves alone
notPass == <<eloVars, syncVars, predVars, trainVars, trackVars,
             histVars, rollVars>>
notElo == <<passVars, syncVars, predVars, trainVars, trackVars,
            histVars, rollVars>>
notSync == <<passVars, eloVars, predVars, trainVars, trackVars,
             histVars, rollVars>>
notPred == <<passVars, eloVars, syncVars, trainVars, trackVars,
             histVars, rollVars>>
notTrain == <<passVars, eloVars, syncVars, trackVars,
              histVars, rollVars>>
notTrack == <<passVars, eloVars, syncVars, predVars, trainVars,
              histVars, rollVars>>
notHist == <<passVars, eloVars, syncVars, predVars, trainVars, trackVars,
             rollVars>>
notRoll == <<passVars, eloVars, syncVars, predVars, trainVars, trackVars,
             histVars>>

(***************************************************************************)
(* Arithmetic helpers.                                                     *)
(***************************************************************************)
Max(a, b) == IF a >= b THEN a ELSE b
Min(a, b) == IF a <= b THEN a ELSE b
Abs(a) == IF a >= 0 THEN a ELSE -a
Clamp(lo, hi, x) == Max(lo, Min(hi, x))

\* Python round() of n/d to an integer: ties go to the even neighbour.
RoundHalfEven(n, d) ==
    LET q == n \div d
        r == n % d
    IN  IF 2 * r < d THEN q
        ELSE IF 2 * r > d THEN q + 1
        ELSE IF q % 2 = 0 THEN q ELSE q + 1

\* round(x, k) of a float that is not an exact decimal tie: nearest.
RoundNearest(n, d) == (2 * n + d) \div (2 * d)

\* 1e6 / (1 + exp(-x)) at x = -8, -7.75, ..., 8.
LogisticTab ==
    <<335, 431, 553, 710, 911, 1170, 1501, 1927, 2473, 3173, 4070, 5220,
      6693, 8577, 10987, 14064, 17986, 22977, 29312, 37327, 47426, 60087,
      75858, 95349, 119203, 148047, 182426, 222700, 268941, 320821, 377541,
      437823, 500000, 562177, 622459, 679179, 731059, 777300, 817574,
      851953, 880797, 904651, 924142, 939913, 952574, 962673, 970688,
      977023, 982014, 985936, 989013, 991423, 993307, 994780, 995930,
      996827, 997527, 998073, 998499, 998830, 999089, 999290, 999447,
      999569, 999665>>

\* 1 / (1 + math.exp(-x)), x in thousandths, result in parts per million
\* (linear interpolation between the tabulated points).
_logistic(x) ==
    IF x <= -8000 THEN LogisticTab[1]
    ELSE IF x >= 8000 THEN LogisticTab[65]
    ELSE LET k == (x + 8000) \div 250 + 1
             f == (x + 8000) % 250
         IN  LogisticTab[k] + ((LogisticTab[k + 1] - LogisticTab[k]) * f) \div 250

\* math.tanh(x) = 2 / (1 + exp(-2x)) - 1, x in thousandths, result in ppm.
Tanh(x) == 2 * _logistic(2 * x) - 1000000

\* 1 / (1 + 10 ** (-d / 400)) for a rating difference d in tenths, in ppm:
\* 10 ** (-d/400) = exp(-d * ln(10) / 400), ln(10)/400 = 0.0057565.
EloExpected(d) == _logistic((Clamp(-30000, 30000, d) * 57565) \div 100000)

\* 1000 * math.log(n), n = 1..64.
LnTab ==
    <<0, 693, 1099, 1386, 1609, 1792, 1946, 2079, 2197, 2303, 2398, 2485,
      2565, 2639, 2708, 2773, 2833, 2890, 2944, 2996, 3045, 3091, 3135,
      3178, 3219, 3258, 3296, 3332, 3367, 3401, 3434, 3466, 3497, 3526,
      3555, 3584, 3611, 3638, 3664, 3689, 3714, 3738, 3761, 3784, 3807,
      3829, 3850, 3871, 3892, 3912, 3932, 3951, 3970, 3989, 4007, 4025,
      4043, 4060, 4078, 4094, 4111, 4127, 4143, 4159>>
Ln(n) == LnTab[Clamp(1, 64, n)]

\* 1000 * n ** 0.8, n = 1..64.
Pow08Tab ==
    <<1000, 1741, 2408, 3031, 3624, 4193, 4743, 5278, 5800, 6310, 6809,
      7300, 7783, 8259, 8727, 9190, 9646, 10098, 10544, 10986, 11423,
      11856, 12285, 12711, 13133, 13551, 13967, 14379, 14788, 15195, 15599,
      16000, 16399, 16795, 17189, 17581, 17971, 18358, 18744, 19127, 19509,
      19888, 20266, 20642, 21017, 21390, 21761, 22131, 22499, 22865, 23230,
      23594, 23956, 24317, 24677, 25035, 25392, 25748, 26102, 26456, 26808,
      27159, 27509, 27858>>
Pow08(n) == Pow08Tab[Clamp(1, 64, n)]

(***************************************************************************)
(* Teams, dates and rows.                                                  *)
(***************************************************************************)
\* Team.objects.all(), in Meta.ordering (by name: Bulls, Celtics, Hawks, Nuggets).
TeamsByName == <<"CHI", "BOS", "ATL", "DEN">>
KnownTeams == {TeamsByName[k] : k \in 1..Len(TeamsByName)}
\* An abbreviation the API can send that has no Team row.
UnknownTeam == "SEA"
\* Python's order on the abbreviations (sorted([home, away])).
AbbrevRank(t) == CASE t = "ATL" -> 1 [] t = "BOS" -> 2 [] t = "CHI" -> 3 [] t = "DEN" -> 4
                   [] OTHER -> 5

NoDate == 0
Dates == 1..MaxDate
\* A score that is None, and a score whose key the API record lacks.
NoScore == -1
Absent == -2
NoGame == [none |-> TRUE]

\* A Team row with every field at its models.py default.
DefaultTeam ==
    [wins |-> 0, losses |-> 0,
     efg_pct |-> 500, tov_pct |-> 130, orb_pct |-> 250, ft_rate |-> 250,
     opp_efg_pct |-> 500, opp_tov_pct |-> 130, opp_orb_pct |-> 250,
     opp_ft_rate |-> 250,
     offensive_rating |-> 1100, defensive_rating |-> 1100, pace |-> 1000,
     elo_rating |-> 15000,
     avg_points_scored |-> 1100, avg_points_allowed |-> 1100,
     last_game_date |-> NoDate, current_streak |-> 0,
     strength_of_schedule |-> 500,
     points_trend |-> 0, defense_trend |-> 0]


(***************************************************************************)
(* NBAPredictor: the Heuristic Model (prediction_model.py).                *)
(* `game` is NoGame or a Game row; components are in parts per million.    *)
(***************************************************************************)
ELO_K_FACTOR == 20
ELO_HOME_ADVANTAGE == 100

net_rating(team) == team.offensive_rating - team.defensive_rating

\* efg * 0.40 + (1 - tov) * 0.25 + orb * 0.20 + ftr * 0.15, in 1e-5.
_calc_four_factors_score(efg, tov, orb, ftr) ==
    efg * 40 + (1000 - tov) * 25 + orb * 20 + ftr * 15

_four_factors_probability(home_team, away_team) ==
    LET home_off == _calc_four_factors_score(home_team.efg_pct, home_team.tov_pct,
                                             home_team.orb_pct, home_team.ft_rate)
        home_def == _calc_four_factors_score(home_team.opp_efg_pct, home_team.opp_tov_pct,
                                             home_team.opp_orb_pct, home_team.opp_ft_rate)
        away_off == _calc_four_factors_score(away_team.efg_pct, away_team.tov_pct,
                                             away_team.orb_pct, away_team.ft_rate)
        away_def == _calc_four_factors_score(away_team.opp_efg_pct, away_team.opp_tov_pct,
                                             away_team.opp_orb_pct, away_team.opp_ft_rate)
        home_advantage == (home_off - away_def) - (away_off - home_def)
    IN  _logistic((home_advantage * 5) \div 100)

_elo_probability(home_team, away_team) ==
    EloExpected((home_team.elo_rating + ELO_HOME_ADVANTAGE * 10) - away_team.elo_rating)

\* logistic(((home_net - away_net) + 3.5) * 0.08)
_net_rating_probability(home_team, away_team) ==
    _logistic(((net_rating(home_team) - net_rating(away_team)) + 35) * 8)

_home_court_probability == 540000

_calc_rest_days(team, game_date) ==
    IF team.last_game_date = NoDate THEN 3
    ELSE Max(1, Min(game_date - team.last_game_date, 7))

_schedule_probability(home_team, away_team, game_date, game) ==
    LET has == game # NoGame
        home_rest == IF has THEN game.home_rest_days ELSE _calc_rest_days(home_team, game_date)
        away_rest == IF has THEN game.away_rest_days ELSE _calc_rest_days(away_team, game_date)
        home_b2b == IF has THEN game.home_b2b ELSE home_rest = 1
        away_b2b == IF has THEN game.away_b2b ELSE away_rest = 1
        home_3in4 == IF has THEN game.home_3in4 ELSE FALSE
        away_3in4 == IF has THEN game.away_3in4 ELSE FALSE
        rest_diff == Min(home_rest, 5) - Min(away_rest, 5)
        \* in tenths of a point: 0.4 per rest day, 1.5 per B2B, 2.0 per 3-in-4
        schedule_advantage ==
            rest_diff * 4
            - (IF home_b2b THEN 15 ELSE 0) + (IF away_b2b THEN 15 ELSE 0)
            - (IF home_3in4 THEN 20 ELSE 0) + (IF away_3in4 THEN 20 ELSE 0)
    IN  500000 + Clamp(-50, 50, schedule_advantage) * 2500

_streak_probability(home_team, away_team) ==
    LET home_factor == Tanh(home_team.current_streak * 200) \div 10
        away_factor == Tanh(away_team.current_streak * 200) \div 10
    IN  500000 + (home_factor - away_factor)

_h2h_probability(home_team, away_team, game) ==
    IF game # NoGame /\ (game.h2h_home_wins # 0 \/ game.h2h_away_wins # 0)
       /\ game.h2h_home_wins + game.h2h_away_wins > 0
    THEN LET total == game.h2h_home_wins + game.h2h_away_wins
             h2h_pct == (game.h2h_home_wins * 1000000) \div total
             weight == Min(total * 250, 1000)
         IN  500000 + ((h2h_pct - 500000) * weight) \div 1000
    ELSE 500000

\* logistic(((home pts trend - home def trend) - (away ...)) * 0.5)
_momentum_probability(home_team, away_team) ==
    LET home_momentum == home_team.points_trend - home_team.defense_trend
        away_momentum == away_team.points_trend - away_team.defense_trend
    IN  _logistic((home_momentum - away_momentum) * 5)

_sos_probability(home_team, away_team) ==
    LET home_sos == IF home_team.strength_of_schedule # 0
                    THEN home_team.strength_of_schedule ELSE 500
        away_sos == IF away_team.strength_of_schedule # 0
                    THEN away_team.strength_of_schedule ELSE 500
    IN  500000 + (home_sos - away_sos) * 200

\* The nine components, in the order of WEIGHTS.
Components(home_team, away_team, game_date, game) ==
    <<_four_factors_probability(home_team, away_team),
      _elo_probability(home_team, away_team),
      _net_rating_probability(home_team, away_team),
      _home_court_probability,
      _schedule_probability(home_team, away_team, game_date, game),
      _streak_probability(home_team, away_team),
      _h2h_probability(home_team, away_team, game),
      _momentum_probability(home_team, away_team),
      _sos_probability(home_team, away_team)>>

\* WEIGHTS, in hundredths.
WEIGHTS == <<30, 20, 15, 8, 7, 5, 5, 5, 5>>

RECURSIVE SumSeq(_)
SumSeq(s) == IF s = <<>> THEN 0 ELSE Head(s) + SumSeq(Tail(s))

raw_prob(components) ==
    SumSeq([k \in 1..9 |-> components[k] * WEIGHTS[k]]) \div 100

\* max(0.15, min(0.85, raw_prob))
ClampProbability(p) == Max(150000, Min(850000, p))

\* The confidence capped from above only.
ClampConfidenceAbove(c) == Min(92000, c)

\* max(40, min(92, confidence)), in thousandths
ClampConfidence(c) == Max(40000, Min(92000, c))

\* min(1.0, games_played / 20) with games_played the mean of the two teams'
\* games, in thousandths.
data_factor(home_team, away_team) ==
    Min(1000, (home_team.wins + home_team.losses
               + away_team.wins + away_team.losses) * 25)

\* base_confidence + agreement_bonus + quality_bonus, in thousandths.
CombinedConfidence(home_team, away_team, home_win_prob, components) ==
    LET base_confidence == 50000 + (Abs(home_win_prob - 500000) * 70) \div 1000
        probs == [k \in 1..9 |-> components[k] \div 100]
        avg_prob == SumSeq(probs) \div 9
        variance == SumSeq([k \in 1..9 |-> (probs[k] - avg_prob) * (probs[k] - avg_prob)]) \div 9
        agreement_bonus == Max(0, 12000 - (variance \div 10000) * 15)
        elo_diff == Abs(home_team.elo_rating - away_team.elo_rating)
        quality_bonus == Min(12000, (elo_diff * 5) \div 2)
    IN  base_confidence + agreement_bonus + quality_bonus

_calculate_confidence(home_team, away_team, home_win_prob, components) ==
    ClampConfidence(
        (CombinedConfidence(home_team, away_team, home_win_prob, components)
         * data_factor(home_team, away_team)) \div 1000)

\* The spread left as computed, without the cap.
UncappedSpread(s) == s

\* max(-16, min(16, spread)), in thousandths of a point
ClampSpread(s) == Max(-16000, Min(16000, s))

_calculate_spread(home_team, away_team, home_win_prob, game_date, game) ==
    LET net_diff == net_rating(home_team) - net_rating(away_team)
        \* net_diff * ((home pace + away pace) / 2 / 100) + 3.5
        base == (net_diff * (home_team.pace + away_team.pace)) \div 20 + 3500
        sched == IF game = NoGame THEN 0
                 ELSE (IF game.home_b2b THEN -1500 ELSE 0)
                      + (IF game.away_b2b THEN 1500 ELSE 0)
                      + (game.home_rest_days - game.away_rest_days) * 200
        streak == (home_team.current_streak - away_team.current_streak) * 200
    IN  ClampSpread(base + sched + streak)

\* The expected total, in thousandths, clamped to [215, 240].
predicted_total(home_team, away_team, game) ==
    LET home_ortg == IF home_team.offensive_rating # 0 THEN home_team.offensive_rating ELSE 1140
        home_drtg == IF home_team.defensive_rating # 0 THEN home_team.defensive_rating ELSE 1140
        away_ortg == IF away_team.offensive_rating # 0 THEN away_team.offensive_rating ELSE 1140
        away_drtg == IF away_team.defensive_rating # 0 THEN away_team.defensive_rating ELSE 1140
        total_adjustment == ((home_ortg + away_ortg) - (home_drtg + away_drtg)) * 20
        home_pace == IF home_team.pace # 0 THEN home_team.pace ELSE 1000
        away_pace == IF away_team.pace # 0 THEN away_team.pace ELSE 1000
        pace_adjustment == ((home_pace + away_pace - 2000) * 25) \div 2
        fatigue == IF game = NoGame THEN 0
                   ELSE (IF game.home_b2b THEN 2000 ELSE 0)
                        + (IF game.away_b2b THEN 2000 ELSE 0)
                        + (IF game.home_3in4 THEN 1500 ELSE 0)
                        + (IF game.away_3in4 THEN 1500 ELSE 0)
    IN  Max(215000, Min(240000, 227000 + total_adjustment + pace_adjustment - fatigue))

\* max(95, min(130, score))
ClampScore(s) == Max(95, Min(130, s))

\* The scores with the spread they were distributed from, rounded, in place
\* of the difference of the rounded scores.
ScoresWithIntendedSpread(home_team, away_team, spread, game) ==
    LET total == predicted_total(home_team, away_team, game)
        home_score == ClampScore(RoundHalfEven(total + spread, 2000))
        away_score == ClampScore(RoundHalfEven(total - spread, 2000))
    IN  <<home_score, away_score, RoundHalfEven(spread, 1000)>>

\* <<home_score, away_score, actual_spread>>
_calculate_predicted_scores(home_team, away_team, spread, game) ==
    LET total == predicted_total(home_team, away_team, game)
        home_score == ClampScore(RoundHalfEven(total + spread, 2000))
        away_score == ClampScore(RoundHalfEven(total - spread, 2000))
    IN  <<home_score, away_score, home_score - away_score>>

\* Decimal(str(float(n))) of an integer n, in tenths.
DecimalOfInt(n) == n * 10

\* NBAPredictor.predict_game: <<home win probability in hundredths of a
\* percent, confidence in hundredths, spread in tenths, home score, away score>>
NBAPredictor_predict_game(home_team, away_team, game_date, game) ==
    LET components == Components(home_team, away_team, game_date, game)
        home_win_prob == ClampProbability(raw_prob(components))
        confidence == _calculate_confidence(home_team, away_team, home_win_prob, components)
        spread == _calculate_spread(home_team, away_team, home_win_prob, game_date, game)
        scores == _calculate_predicted_scores(home_team, away_team, spread, game)
    IN  <<RoundNearest(home_win_prob, 100),
          RoundNearest(confidence, 10),
          DecimalOfInt(scores[3]),
          scores[1],
          scores[2]>>


(***************************************************************************)
(* MLPredictor: the Learned Model (ml_predictor.py).                       *)
(* The regressors and the scaler are external: what they do on one call    *)
(* is an input `ml` = [features_ok, raises, spread, total] (tenths).       *)
(***************************************************************************)
NoInstance == [absent |-> TRUE]
\* Python's None, and an exception on its way to the caller.
None == <<"None">>
Raised == <<"raised">>

\* The length of the feature vector _prepare_features builds.
FeatureCount == 21

\* The length of the feature list a part was fitted on: "inference" is the
\* list inference builds, "reordered" the same features in another order,
\* "shorter" a list with one feature less.
FeatureLen(f) == IF f = "shorter" THEN FeatureCount - 1 ELSE FeatureCount

\* The four files of the bundle, in the order they are dumped and loaded.
PartNames == <<"spread_model", "total_model", "scaler", "feature_names">>

\* What a file of the bundle holds: nothing (no such file), bytes joblib
\* cannot load (damaged, or still being written), or what joblib.dump wrote
\* in training run `run` for the feature list `features`.
NoFile == [state |-> "absent", run |-> 0, features |-> "none"]
Garbled == [state |-> "garbled", run |-> 0, features |-> "none"]
Written(run, features) == [state |-> "written", run |-> run, features |-> features]

\* The bundle as training run `run` leaves it.
TrainedBundle(run, features) ==
    [spread_model |-> Written(run, features), total_model |-> Written(run, features),
     scaler |-> Written(run, features), feature_names |-> Written(run, features)]

ValidBundle == TrainedBundle(1, "inference")
MissingBundle ==
    [spread_model |-> NoFile, total_model |-> NoFile, scaler |-> NoFile,
     feature_names |-> NoFile]
CorruptBundle == [ValidBundle EXCEPT !.scaler = Garbled]
\* The regressors of run 2 next to the scaler and feature names of run 1.
MixedBundle ==
    [ValidBundle EXCEPT !.spread_model = Written(2, "inference"),
                        !.total_model = Written(2, "inference")]
\* Bundles fitted on a feature list that is not the one inference builds.
ReorderedBundle == TrainedBundle(1, "reordered")
ShorterBundle == TrainedBundle(1, "shorter")

\* What is on disk where the trained bundle is expected.
Bundles ==
    {ValidBundle, MissingBundle, CorruptBundle, MixedBundle, ReorderedBundle,
     ShorterBundle}

\* An attribute of the predictor that is still None.
NotLoaded == [state |-> "None", run |-> 0, features |-> "none"]

\* MLPredictor.__init__ before _load_models is called.
MLPredictorFresh ==
    [models_loaded |-> FALSE, spread_model |-> NotLoaded, total_model |-> NotLoaded,
     scaler |-> NotLoaded, feature_names |-> NotLoaded]

\* One joblib.load of _load_models: the part is assigned, the flag is set
\* after the last one; a file that cannot be loaded raises, and the handler
\* leaves models_loaded False.
LoadPartFrom(inst, file, k) ==
    IF file.state # "written" THEN [inst EXCEPT !.models_loaded = FALSE]
    ELSE [inst EXCEPT ![PartNames[k]] = file, !.models_loaded = (k = Len(PartNames))]

\* The loads from part k on, from a bundle nobody writes meanwhile.
RECURSIVE LoadFrom(_, _, _)
LoadFrom(inst, bundle, k) ==
    IF k > Len(PartNames) \/ bundle[PartNames[k]].state # "written"
    THEN IF k > Len(PartNames) THEN inst ELSE LoadPartFrom(inst, bundle[PartNames[k]], k)
    ELSE LoadFrom(LoadPartFrom(inst, bundle[PartNames[k]], k), bundle, k + 1)

\* MLPredictor._load_models: the four joblib.load calls in a row.
_load_models(bundle) == LoadFrom(MLPredictorFresh, bundle, 1)

\* The four parts an instance holds come from one training run.
PartsOfOneRun(inst) ==
    \A i, j \in 1..Len(PartNames) : inst[PartNames[i]].run = inst[PartNames[j]].run

\* scaler.transform and the regressors' predict raise ValueError on a
\* feature vector of another length than they were fitted on.
ShapeMismatch(instance) ==
    \/ FeatureLen(instance.scaler.features) # FeatureCount
    \/ FeatureLen(instance.spread_model.features) # FeatureCount
    \/ FeatureLen(instance.total_model.features) # FeatureCount

\* MLPredictor() as get_ml_predictor constructs it.
MLPredictor_init(bundle) == _load_models(bundle)

\* A get_ml_predictor that builds a new MLPredictor on every call.
get_ml_predictor_anew(instance, bundle) == MLPredictor_init(bundle)

\* get_ml_predictor: the instance is created on first use and kept.
get_ml_predictor(instance, bundle) ==
    IF instance = NoInstance THEN MLPredictor_init(bundle) ELSE instance

\* max(95, min(135, score))
ClampScoreML(s) == Max(95, Min(135, s))

\* MLPredictor.predict: None, Raised, or
\* <<spread (tenths), total (tenths), home_score, away_score>>
MLPredictor_predict(instance, home_team, away_team, game, ml) ==
    IF ~instance.models_loaded THEN None
    ELSE IF ~ml.features_ok THEN None
    ELSE IF ShapeMismatch(instance) \/ ml.raises THEN Raised
    ELSE LET spread == Max(-160, Min(160, ml.spread))
             home_score == ClampScoreML(RoundHalfEven(ml.total + spread, 20))
             away_score == ClampScoreML(RoundHalfEven(ml.total - spread, 20))
             actual_spread == home_score - away_score
             actual_total == home_score + away_score
         IN  <<DecimalOfInt(actual_spread), DecimalOfInt(actual_total),
               home_score, away_score>>

\* 1 / (1 + exp(-spread / 4.5)) as a percentage with two decimals.
calculate_win_probability(spread) ==
    RoundNearest(_logistic((spread * 200) \div 9), 100)

\* max(40, min(90, min(|spread| * 2 + 40, 85) * games_factor)), two decimals.
calculate_confidence(spread, home_team, away_team) ==
    LET spread_confidence == Min(Abs(spread) * 200 + 40000, 85000)
        games_factor == Min((home_team.wins + home_team.losses
                             + away_team.wins + away_team.losses) * 25, 1000)
        confidence == (spread_confidence * games_factor) \div 1000
    IN  RoundNearest(Max(40000, Min(90000, confidence)), 10)

\* What the `try` block of predict_game yields: a 5-tuple, or None when
\* control leaves it without returning (models not loaded, predict returned
\* None, or an exception was swallowed by `except Exception: pass`).
TryLearned(instance, home_team, away_team, game, ml) ==
    LET r == MLPredictor_predict(instance, home_team, away_team, game, ml)
    IN  IF ~instance.models_loaded \/ r = None \/ r = Raised THEN None
        ELSE <<calculate_win_probability(r[1]),
               calculate_confidence(r[1], home_team, away_team),
               r[1], r[3], r[4]>>

\* predict_game without its `except Exception`: a failure of the learned
\* model reaches the caller.
predict_game_unguarded(instance, home_team, away_team, game_date, game, ml) ==
    LET r == MLPredictor_predict(instance, home_team, away_team, game, ml)
        learned == TryLearned(instance, home_team, away_team, game, ml)
    IN  IF r = Raised THEN Raised
        ELSE IF learned # None THEN learned
        ELSE NBAPredictor_predict_game(home_team, away_team, game_date, game)

\* predict_game(home_team, away_team, game_date, game, use_ml=True) with the
\* singleton already obtained.
predict_game(instance, home_team, away_team, game_date, game, ml) ==
    LET learned == TryLearned(instance, home_team, away_team, game, ml)
    IN  IF learned # None THEN learned
        ELSE NBAPredictor_predict_game(home_team, away_team, game_date, game)


(***************************************************************************)
(* The two Elo updaters.  A delta is a float: the model keeps it truncated *)
(* to thousandths, so the real delta lies in [c, c + 0.001) and is never   *)
(* an exact decimal tie.                                                   *)
(***************************************************************************)
\* Command._update_elo (load_real_data.py): K and home_advantage.
K == 20
home_advantage == 100

\* min(2.5, max(1.0, (margin + 3) ** 0.8 / 20)), in thousandths
mov_mult_tracker(margin) == Min(2500, Max(1000, Pow08(margin + 3) \div 20))

\* Command._update_elo: the delta it returns, from the two tracker ratings
\* (thousandths).
_update_elo(winner_elo, loser_elo, winner_is_home, margin) ==
    LET w == IF winner_is_home THEN winner_elo + home_advantage * 1000 ELSE winner_elo
        l == IF winner_is_home THEN loser_elo ELSE loser_elo + home_advantage * 1000
        expected == EloExpected((w - l) \div 100)
    IN  (K * mov_mult_tracker(margin) * ((1000000 - expected) \div 1000)) \div 1000

\* winner_tracker.elo += elo_change
TrackerEloAdd(elo, elo_change) == elo + elo_change
\* loser_tracker.elo -= elo_change
TrackerEloSub(elo, elo_change) == elo - elo_change

\* log(max(margin, 1) + 1) * (2.2 / ((winner_elo - loser_elo) * 0.001 + 2.2)),
\* clamped to [1.0, 2.5]; ratings adjusted for home court, in tenths.
mov_mult_model(w, l, margin) ==
    Max(1000, Min(2500, (Ln(Max(margin, 1) + 1) * 2200) \div ((w - l) \div 10 + 2200)))

\* NBAPredictor.update_elo_after_game: the delta it returns (thousandths),
\* from the two Team.elo_rating values (tenths).
update_elo_after_game(winner_rating, loser_rating, winner_is_home, margin) ==
    LET w == IF winner_is_home THEN winner_rating + ELO_HOME_ADVANTAGE * 10 ELSE winner_rating
        l == IF winner_is_home THEN loser_rating ELSE loser_rating + ELO_HOME_ADVANTAGE * 10
        expected == EloExpected(w - l)
    IN  (ELO_K_FACTOR * mov_mult_model(w, l, margin) * ((1000000 - expected) \div 1000)) \div 1000

\* Decimal(str(round(float(rating) + elo_change, 1))), in tenths.
RatingAdd(rating, elo_change) == (rating * 100 + elo_change + 50) \div 100
\* The loser's rating cut, not rounded, to one decimal.
RatingSubTruncated(rating, elo_change) == (rating * 100 - elo_change) \div 100

\* Decimal(str(round(float(rating) - elo_change, 1))), in tenths.
RatingSub(rating, elo_change) == (rating * 100 - elo_change + 49) \div 100

(***************************************************************************)
(* TeamTracker (load_real_data.py).                                        *)
(***************************************************************************)
InitialElo == 1500

\* TeamTracker.__init__
TeamTracker ==
    [wins |-> 0, losses |-> 0, points_scored |-> 0, points_allowed |-> 0,
     home_wins |-> 0, home_losses |-> 0, away_wins |-> 0, away_losses |-> 0,
     current_streak |-> 0, home_streak |-> 0, away_streak |-> 0,
     last_10_results |-> <<>>, last_game_date |-> NoDate, game_dates |-> <<>>,
     opponents |-> <<>>, opponent_elos |-> <<>>,
     recent_scores |-> <<>>, recent_allowed |-> <<>>,
     vs_above_500_wins |-> 0, vs_above_500_losses |-> 0,
     vs_below_500_wins |-> 0, vs_below_500_losses |-> 0,
     elo |-> InitialElo * 1000]

games_played(t) == t.wins + t.losses

\* wins / games_played, in parts per million; 0.5 with no games
win_pct(t) ==
    IF games_played(t) = 0 THEN 500000 ELSE (t.wins * 1000000) \div games_played(t)

is_b2b(t, game_date) ==
    IF t.last_game_date = NoDate THEN FALSE ELSE game_date - t.last_game_date = 1

is_3in4(t, game_date) ==
    IF Len(t.game_dates) < 2 THEN FALSE
    ELSE LET four_days_ago == game_date - 3
             recent_games == {k \in 1..Len(t.game_dates) : t.game_dates[k] >= four_days_ago}
         IN  Cardinality(recent_games) >= 2

rest_days(t, game_date) ==
    IF t.last_game_date = NoDate THEN 3 ELSE Max(1, game_date - t.last_game_date)

\* list.append(x) with nothing popped.
PushUncapped(s, x, cap) == Append(s, x)

\* list.append(x) followed by pop(0) when longer than cap
PushCapped(s, x, cap) ==
    LET a == Append(s, x) IN IF Len(a) > cap THEN Tail(a) ELSE a

\* A winning streak that goes on from a losing one.
StreakUpNoReset(s) == s + 1

\* the streak after a win / after a loss
StreakUp(s) == IF s > 0 THEN s + 1 ELSE 1
StreakDown(s) == IF s < 0 THEN s - 1 ELSE -1

\* TeamTracker.update_after_game
update_after_game(t, game_date, points_for, points_against, is_home, won, opponent_win_pct, opponent_elo) ==
    [t EXCEPT
        !.wins = IF won THEN @ + 1 ELSE @,
        !.losses = IF won THEN @ ELSE @ + 1,
        !.home_wins = IF won /\ is_home THEN @ + 1 ELSE @,
        !.away_wins = IF won /\ ~is_home THEN @ + 1 ELSE @,
        !.home_losses = IF ~won /\ is_home THEN @ + 1 ELSE @,
        !.away_losses = IF ~won /\ ~is_home THEN @ + 1 ELSE @,
        !.points_scored = @ + points_for,
        !.points_allowed = @ + points_against,
        !.current_streak = IF won THEN StreakUp(@) ELSE StreakDown(@),
        !.home_streak = IF ~is_home THEN @ ELSE IF won THEN StreakUp(@) ELSE StreakDown(@),
        !.away_streak = IF is_home THEN @ ELSE IF won THEN StreakUp(@) ELSE StreakDown(@),
        !.last_10_results = PushCapped(@, IF won THEN 1 ELSE 0, 10),
        !.recent_scores = PushCapped(@, points_for, 10),
        !.recent_allowed = PushCapped(@, points_against, 10),
        !.last_game_date = game_date,
        !.game_dates = PushCapped(@, game_date, 7),
        !.opponents = Append(@, opponent_win_pct),
        !.opponent_elos = Append(@, opponent_elo),
        !.vs_above_500_wins = IF opponent_win_pct >= 500000 /\ won THEN @ + 1 ELSE @,
        !.vs_above_500_losses = IF opponent_win_pct >= 500000 /\ ~won THEN @ + 1 ELSE @,
        !.vs_below_500_wins = IF opponent_win_pct < 500000 /\ won THEN @ + 1 ELSE @,
        !.vs_below_500_losses = IF opponent_win_pct < 500000 /\ ~won THEN @ + 1 ELSE @]

\* sum(xs) / len(xs) of a non-empty list, same unit as its entries
Mean(xs) == SumSeq(xs) \div Len(xs)

strength_of_schedule(t) == IF t.opponents = <<>> THEN 500000 ELSE Mean(t.opponents)

\* mean of the second half minus mean of the first half, in thousandths of
\* a point; 0.0 with fewer than five entries
Trend(xs) ==
    IF Len(xs) < 5 THEN 0
    ELSE LET h == Len(xs) \div 2
             first_half == SubSeq(xs, 1, h)
             second_half == SubSeq(xs, h + 1, Len(xs))
         IN  (SumSeq(second_half) * 1000) \div Len(second_half)
             - (SumSeq(first_half) * 1000) \div Len(first_half)

points_trend(t) == Trend(t.recent_scores)
defense_trend(t) == Trend(t.recent_allowed)


(***************************************************************************)
(* The chronological pass: Command.process_games_chronologically           *)
(* (load_real_data.py).                                                    *)
(***************************************************************************)
\* Fixtures the API may report: (home, visitor).
Matchups ==
    {<<"BOS", "ATL">>, <<"ATL", "BOS">>, <<"BOS", "CHI">>, <<"CHI", "ATL">>,
     <<"CHI", "DEN">>, <<UnknownTeam, "BOS">>}

\* Status and score of a reported game; a Final record may come with its
\* home score null or without the key.
Outcomes ==
    {[status |-> "Final", home_score |-> 110, away_score |-> 100],
     [status |-> "Final", home_score |-> 98, away_score |-> 105],
     [status |-> "Final", home_score |-> NoScore, away_score |-> 100],
     [status |-> "Final", home_score |-> Absent, away_score |-> 100],
     [status |-> "Scheduled", home_score |-> 0, away_score |-> 0]}

\* api_game.get('home_team_score', 0)
ScoreGet(v) == IF v = Absent THEN 0 ELSE v

\* home_score > away_score raises TypeError when either is None.
ComparisonRaises(home_score, away_score) == home_score = NoScore \/ away_score = NoScore

ApiGames ==
    {[date |-> d, home |-> m[1], away |-> m[2], status |-> o.status,
      home_score |-> o.home_score, away_score |-> o.away_score] :
        d \in Dates, m \in Matchups, o \in Outcomes}

GameLists == UNION {[1..n -> ApiGames] : n \in 1..MaxGames}

\* sorted(all_games, key=lambda x: x['date']): stable.
RECURSIVE InsertByDate(_, _)
InsertByDate(s, g) ==
    IF s = <<>> THEN <<g>>
    ELSE IF s[Len(s)].date <= g.date THEN Append(s, g)
    ELSE Append(InsertByDate(SubSeq(s, 1, Len(s) - 1), g), s[Len(s)])

RECURSIVE SortByDate(_)
SortByDate(s) ==
    IF s = <<>> THEN <<>>
    ELSE InsertByDate(SortByDate(SubSeq(s, 1, Len(s) - 1)), s[Len(s)])

IsFinal(g) == g.status = "Final"
IsNotFinal(g) == g.status # "Final"

\* tuple(sorted([home_abbrev, away_abbrev]))
h2h_key(home_abbrev, away_abbrev) ==
    IF AbbrevRank(home_abbrev) < AbbrevRank(away_abbrev)
    THEN <<home_abbrev, away_abbrev>> ELSE <<away_abbrev, home_abbrev>>

PairKeys == {h2h_key(a, b) : a \in KnownTeams, b \in KnownTeams} \ {<<a, a>> : a \in KnownTeams}

\* defaultdict(lambda: {'home_wins': 0, 'away_wins': 0})
NewH2H == [k \in PairKeys |-> [home_wins |-> 0, away_wins |-> 0]]

\* trackers[team.abbreviation] = TeamTracker() for team in Team.objects.all()
NewTrackers == [t \in KnownTeams |-> TeamTracker]

\* the pre_game_state dict of a completed game
pre_game_state(tr, g) ==
    [home_elo |-> tr[g.home].elo,
     away_elo |-> tr[g.away].elo,
     home_streak |-> tr[g.home].current_streak,
     away_streak |-> tr[g.away].current_streak,
     home_rest |-> rest_days(tr[g.home], g.date),
     away_rest |-> rest_days(tr[g.away], g.date),
     home_b2b |-> is_b2b(tr[g.home], g.date),
     away_b2b |-> is_b2b(tr[g.away], g.date),
     home_3in4 |-> is_3in4(tr[g.home], g.date),
     away_3in4 |-> is_3in4(tr[g.away], g.date)]

\* h2h['home_wins'] if home_abbrev == h2h_key[0] else h2h['away_wins']
H2HHomeWins(h2h, g) ==
    LET key == h2h_key(g.home, g.away)
    IN  IF g.home = key[1] THEN h2h[key].home_wins ELSE h2h[key].away_wins

\* h2h['away_wins'] if home_abbrev == h2h_key[0] else h2h['home_wins']
H2HAwayWins(h2h, g) ==
    LET key == h2h_key(g.home, g.away)
    IN  IF g.home = key[1] THEN h2h[key].away_wins ELSE h2h[key].home_wins

\* The result of a completed game recorded for its home team only.
ApplyCompletedHomeOnly(tr, h2h, g) ==
    [trackers |-> [tr EXCEPT ![g.home] =
                      update_after_game(@, g.date, ScoreGet(g.home_score),
                                        ScoreGet(g.away_score), TRUE,
                                        ScoreGet(g.home_score) > ScoreGet(g.away_score),
                                        win_pct(tr[g.away]), tr[g.away].elo)],
     h2h_records |-> h2h]

\* The tracker, Elo and head-to-head updates of one completed game whose
\* teams are both tracked (the loop body from "Determine winner" to
\* "Update H2H").
ApplyCompleted(tr, h2h, g) ==
    LET home_score == ScoreGet(g.home_score)
        away_score == ScoreGet(g.away_score)
        home_won == home_score > away_score
        home1 == update_after_game(tr[g.home], g.date, home_score, away_score,
                                   TRUE, home_won,
                                   win_pct(tr[g.away]), tr[g.away].elo)
        away1 == update_after_game(tr[g.away], g.date, away_score, home_score,
                                   FALSE, ~home_won,
                                   win_pct(home1), home1.elo)
        margin == Abs(home_score - away_score)
        elo_change == IF home_won THEN _update_elo(home1.elo, away1.elo, TRUE, margin)
                      ELSE _update_elo(away1.elo, home1.elo, FALSE, margin)
        home2 == [home1 EXCEPT !.elo = IF home_won THEN TrackerEloAdd(@, elo_change)
                                       ELSE TrackerEloSub(@, elo_change)]
        away2 == [away1 EXCEPT !.elo = IF home_won THEN TrackerEloSub(@, elo_change)
                                       ELSE TrackerEloAdd(@, elo_change)]
        key == h2h_key(g.home, g.away)
        winner == IF home_won THEN g.home ELSE g.away
    IN  [trackers |-> [tr EXCEPT ![g.home] = home2, ![g.away] = away2],
         h2h_records |-> [h2h EXCEPT ![key] =
                            IF winner = key[1]
                            THEN [@ EXCEPT !.home_wins = @ + 1]
                            ELSE [@ EXCEPT !.away_wins = @ + 1]]]

\* A Game row as the model keeps it; nothing is predicted until written.
NewGameRow ==
    [status |-> "scheduled", home_score |-> 0, away_score |-> 0,
     home_rest_days |-> 2, away_rest_days |-> 2,
     home_b2b |-> FALSE, away_b2b |-> FALSE,
     home_3in4 |-> FALSE, away_3in4 |-> FALSE,
     home_elo_pre |-> 0, away_elo_pre |-> 0,
     home_streak_pre |-> 0, away_streak_pre |-> 0,
     h2h_home_wins |-> 0, h2h_away_wins |-> 0,
     prediction |-> <<>>]

GameKey(g) == <<g.date, g.home, g.away>>

\* Game.objects.update_or_create(date, home_team, away_team, defaults=row)
update_or_create(db, key, row) ==
    [k \in DOMAIN db \cup {key} |-> IF k = key THEN row ELSE db[k]]

ExistingRow(db, key) == IF key \in DOMAIN db THEN db[key] ELSE NewGameRow

\* The defaults written for a completed game: the pre-game state taken
\* before the updates, the head-to-head tallies read after them.
CompletedRow(old, pre, h2h_after, g) ==
    [old EXCEPT
        !.home_score = ScoreGet(g.home_score), !.away_score = ScoreGet(g.away_score),
        !.status = "final",
        !.home_rest_days = pre.home_rest, !.away_rest_days = pre.away_rest,
        !.home_b2b = pre.home_b2b, !.away_b2b = pre.away_b2b,
        !.home_3in4 = pre.home_3in4, !.away_3in4 = pre.away_3in4,
        !.home_elo_pre = RoundNearest(pre.home_elo, 100),
        !.away_elo_pre = RoundNearest(pre.away_elo, 100),
        !.home_streak_pre = pre.home_streak, !.away_streak_pre = pre.away_streak,
        !.h2h_home_wins = H2HHomeWins(h2h_after, g),
        !.h2h_away_wins = H2HAwayWins(h2h_after, g)]

\* Command._update_team_from_tracker
_update_team_from_tracker(team, tracker) ==
    LET gp == games_played(tracker)
        ps == tracker.points_scored
        pa == tracker.points_allowed
        base == [team EXCEPT
                    !.wins = tracker.wins, !.losses = tracker.losses,
                    !.elo_rating = RoundNearest(tracker.elo, 100),
                    !.current_streak = tracker.current_streak,
                    !.last_game_date = tracker.last_game_date,
                    !.strength_of_schedule = RoundNearest(strength_of_schedule(tracker), 1000),
                    !.points_trend = RoundNearest(points_trend(tracker), 10),
                    !.defense_trend = RoundNearest(defense_trend(tracker), 10)]
    IN  IF gp = 0 THEN base
        ELSE [base EXCEPT
                !.avg_points_scored = RoundNearest(ps * 10, gp),
                !.avg_points_allowed = RoundNearest(pa * 10, gp),
                !.offensive_rating = RoundNearest(ps * 10, gp),
                !.defensive_rating = RoundNearest(pa * 10, gp),
                \* eff = avg_scored / 110; 0.50 + (eff - 1) * 0.08, ...
                !.efg_pct = 500 + RoundNearest(80 * (ps - 110 * gp), 110 * gp),
                !.tov_pct = 130 + RoundNearest(-20 * (ps - 110 * gp), 110 * gp),
                !.orb_pct = 250 + RoundNearest(30 * (ps - 110 * gp), 110 * gp),
                !.ft_rate = 250 + RoundNearest(20 * (ps - 110 * gp), 110 * gp),
                \* def_eff = 110 / avg_allowed; 0.54 - (def_eff - 1) * 0.08, ...
                !.opp_efg_pct = 540 + RoundNearest(-80 * (110 * gp - pa), pa),
                !.opp_tov_pct = 130 + RoundNearest(20 * (110 * gp - pa), pa),
                !.opp_orb_pct = 250 + RoundNearest(-30 * (110 * gp - pa), pa),
                !.opp_ft_rate = 250 + RoundNearest(-20 * (110 * gp - pa), pa),
                \* 98 + (avg_scored + avg_allowed - 220) * 0.5
                !.pace = 980 + RoundNearest(5 * (ps + pa - 220 * gp), gp)]

\* 110 / avg_allowed raises ZeroDivisionError for a team that has played
\* and allowed no point: the position in trackers.items() of the first such
\* team, or one past the last team.
FirstZeroDivision(tr) ==
    LET bad == {k \in 1..Len(TeamsByName) :
                   /\ games_played(tr[TeamsByName[k]]) > 0
                   /\ tr[TeamsByName[k]].points_allowed = 0}
    IN  IF bad = {} THEN Len(TeamsByName) + 1
        ELSE CHOOSE k \in bad : \A j \in bad : k <= j

\* for abbrev, tracker in trackers.items(): team = Team.objects.get(...);
\* self._update_team_from_tracker(team, tracker) -- the rows saved before
\* the loop ends or raises.
UpdateAllTeams(db, tr) ==
    LET stop == FirstZeroDivision(tr)
    IN  [t \in KnownTeams |->
            IF \E k \in 1..(stop - 1) : TeamsByName[k] = t
            THEN _update_team_from_tracker(db[t], tr[t]) ELSE db[t]]

\* The defaults written for a scheduled game.  `team` is the name the loop
\* over trackers.items() left bound.
ScheduledRow(old, tr, h2h, teams, team, g) ==
    [old EXCEPT
        !.status = "scheduled",
        !.home_rest_days = rest_days(tr[g.home], g.date),
        !.away_rest_days = rest_days(tr[g.away], g.date),
        !.home_b2b = is_b2b(tr[g.home], g.date),
        !.away_b2b = is_b2b(tr[g.away], g.date),
        !.home_3in4 = is_3in4(tr[g.home], g.date),
        !.away_3in4 = is_3in4(tr[g.away], g.date),
        !.home_elo_pre = teams[team].elo_rating,
        !.away_elo_pre = teams[g.away].elo_rating,
        !.home_streak_pre = tr[g.home].current_streak,
        !.away_streak_pre = tr[g.away].current_streak,
        !.h2h_home_wins = H2HHomeWins(h2h, g),
        !.h2h_away_wins = H2HAwayWins(h2h, g)]

\* home_prob, confidence, spread = <tuple>: the number of targets
UnpackTargets == 3
\* True when the assignment would raise ValueError.
UnpackRaises(tuple) == Len(tuple) # UnpackTargets


\* What the loaded regressors and scaler may do on one call.
MlSpreads == {-200, -5, 70, 165}
MlTotals == {1850, 2275, 2800}
MlBehaviours ==
    {[features_ok |-> TRUE, raises |-> FALSE, spread |-> sp, total |-> tt] :
        sp \in MlSpreads, tt \in MlTotals}
    \cup {[features_ok |-> TRUE, raises |-> TRUE, spread |-> 0, total |-> 0],
          [features_ok |-> FALSE, raises |-> FALSE, spread |-> 0, total |-> 0]}

Instances == {_load_models(b) : b \in Bundles}

(***************************************************************************)
(* The historical feature pass: Command._calculate_features                *)
(* (fetch_historical_data.py; load_historical_csv.py has the same loop,    *)
(* its recent_games entries being (scored, allowed) pairs).                *)
(***************************************************************************)
\* A DecimalField(null=True) that holds no value.
Null == -3

\* The default of team_stats.
NewTeamStats ==
    [wins |-> 0, losses |-> 0, home_wins |-> 0, home_losses |-> 0,
     away_wins |-> 0, away_losses |-> 0, recent_games |-> <<>>, streak |-> 0,
     last_game_date |-> NoDate]

\* The feature fields of a HistoricalGame row at their models.py defaults.
NewFeatures ==
    [home_win_pct |-> Null, away_win_pct |-> Null,
     home_ppg_l10 |-> Null, away_ppg_l10 |-> Null,
     home_papg_l10 |-> Null, away_papg_l10 |-> Null,
     home_streak |-> 0, away_streak |-> 0,
     home_rest_days |-> 2, away_rest_days |-> 2,
     h2h_home_wins |-> 0, h2h_away_wins |-> 0,
     home_home_wins |-> 0, home_home_losses |-> 0,
     away_away_wins |-> 0, away_away_losses |-> 0]

\* xs[-n:]
LastN(xs, n) == IF Len(xs) <= n THEN xs ELSE SubSeq(xs, Len(xs) - n + 1, Len(xs))

\* The winning percentage with the game at hand already counted as a win.
HistWinPctWithThisGame(stats) ==
    RoundHalfEven((stats.wins + 1) * 1000, stats.wins + stats.losses + 1)

\* Decimal(str(round(wins / games, 3))) if games > 0 else None, in thousandths
HistWinPct(stats) ==
    LET games == stats.wins + stats.losses
    IN  IF games > 0 THEN RoundHalfEven(stats.wins * 1000, games) ELSE Null

\* round(sum(g[1] for g in recent) / len(recent), 1), in tenths
HistPpg(recent) ==
    RoundHalfEven(SumSeq([k \in 1..Len(recent) |-> recent[k].scored]) * 10, Len(recent))

\* round(sum(g[2] for g in recent) / len(recent), 1), in tenths
HistPapg(recent) ==
    RoundHalfEven(SumSeq([k \in 1..Len(recent) |-> recent[k].allowed]) * 10, Len(recent))

\* min((game.date - last_game_date).days, 7)
HistRestDays(stats, date) == Min(date - stats.last_game_date, 7)

\* The pre-game features written onto the row `game` ("Calculate pre-game
\* features" up to game.save()); a field that is not assigned keeps the
\* value the row has.
HistFeatures(game, home_stats, away_stats, h2h) ==
    LET home_recent == LastN(home_stats.recent_games, 10)
        away_recent == LastN(away_stats.recent_games, 10)
        key == h2h_key(game.home, game.away)
    IN  [game EXCEPT
            !.home_win_pct = HistWinPct(home_stats),
            !.away_win_pct = HistWinPct(away_stats),
            !.home_ppg_l10 = IF home_recent # <<>> THEN HistPpg(home_recent) ELSE @,
            !.home_papg_l10 = IF home_recent # <<>> THEN HistPapg(home_recent) ELSE @,
            !.away_ppg_l10 = IF away_recent # <<>> THEN HistPpg(away_recent) ELSE @,
            !.away_papg_l10 = IF away_recent # <<>> THEN HistPapg(away_recent) ELSE @,
            !.home_streak = home_stats.streak,
            !.away_streak = away_stats.streak,
            !.home_rest_days = IF home_stats.last_game_date # NoDate
                               THEN HistRestDays(home_stats, game.date) ELSE @,
            !.away_rest_days = IF away_stats.last_game_date # NoDate
                               THEN HistRestDays(away_stats, game.date) ELSE @,
            !.h2h_home_wins = IF key[1] = game.home THEN h2h.home_wins ELSE h2h.away_wins,
            !.h2h_away_wins = IF key[1] = game.home THEN h2h.away_wins ELSE h2h.home_wins,
            !.home_home_wins = home_stats.home_wins,
            !.home_home_losses = home_stats.home_losses,
            !.away_away_wins = away_stats.away_wins,
            !.away_away_losses = away_stats.away_losses]

\* streak + 1 if streak >= 0 else 1, and streak - 1 if streak <= 0 else -1
HistStreakUp(s) == IF s >= 0 THEN s + 1 ELSE 1
HistStreakDown(s) == IF s <= 0 THEN s - 1 ELSE -1

\* "NOW update stats with this game's result", for one of the two teams.
HistAfterGame(stats, date, scored, allowed, is_home, won) ==
    [stats EXCEPT
        !.wins = IF won THEN @ + 1 ELSE @,
        !.losses = IF won THEN @ ELSE @ + 1,
        !.home_wins = IF won /\ is_home THEN @ + 1 ELSE @,
        !.home_losses = IF ~won /\ is_home THEN @ + 1 ELSE @,
        !.away_wins = IF won /\ ~is_home THEN @ + 1 ELSE @,
        !.away_losses = IF ~won /\ ~is_home THEN @ + 1 ELSE @,
        !.streak = IF won THEN HistStreakUp(@) ELSE HistStreakDown(@),
        !.recent_games = LastN(Append(@, [date |-> date, scored |-> scored,
                                          allowed |-> allowed, won |-> won]), 15),
        !.last_game_date = date]

\* Tallies that count the wins of whoever hosted, not of a fixed team.
HistAfterH2HByHost(h2h, game) ==
    IF game.home_score > game.away_score
    THEN [h2h EXCEPT !.home_wins = @ + 1]
    ELSE [h2h EXCEPT !.away_wins = @ + 1]

\* The tallies of the pair after the game: home_wins counts the wins of the
\* first abbreviation of the sorted key.
HistAfterH2H(h2h, game) ==
    LET key == h2h_key(game.home, game.away)
        home_won == game.home_score > game.away_score
    IN  IF home_won = (key[1] = game.home)
        THEN [h2h EXCEPT !.home_wins = @ + 1]
        ELSE [h2h EXCEPT !.away_wins = @ + 1]


\* ------------------------------------------------------------------------
\* State and steps of the pass.
\* ------------------------------------------------------------------------
NoTeam == "-"

PassInit ==
    /\ all_games \in GameLists
    /\ pass_input = all_games
    /\ pc = "start"
    /\ completed = <<>>
    /\ scheduled = <<>>
    /\ idx = 1
    /\ trackers = NewTrackers
    /\ h2h_records = NewH2H
    /\ games_db = <<>>
    /\ teams_db = [t \in KnownTeams |-> DefaultTeam]
    /\ team_var = NoTeam
    /\ run_no = 1
    /\ cut_date = MaxDate
    /\ full_db = <<>>
    /\ full_trackers = NewTrackers

\* Lines 302-315: fresh trackers and tallies, the sort and the split.
BeginPass ==
    /\ UNCHANGED notPass
    /\ pc = "start"
    /\ trackers' = NewTrackers
    /\ h2h_records' = NewH2H
    /\ completed' = SelectSeq(SortByDate(pass_input), IsFinal)
    /\ scheduled' = SelectSeq(SortByDate(pass_input), IsNotFinal)
    /\ idx' = 1
    /\ team_var' = NoTeam
    /\ pc' = "completed"
    /\ UNCHANGED <<all_games, pass_input, games_db, teams_db, run_no, cut_date, full_db,
                   full_trackers>>

\* A skip that still stores a Game row for the game.
SkipGameButStore(g) ==
    /\ UNCHANGED <<trackers, h2h_records>>
    /\ games_db' = update_or_create(games_db, GameKey(g), ExistingRow(games_db, GameKey(g)))

\* `continue` on a team without a tracker: nothing of the game is kept.
SkipGame(g) == UNCHANGED <<trackers, h2h_records, games_db>>

\* One iteration of `for api_game in completed`.
ProcessCompleted ==
    /\ UNCHANGED notPass
    /\ pc = "completed"
    /\ idx <= Len(completed)
    /\ LET g == completed[idx]
       IN  IF g.home \notin DOMAIN trackers \/ g.away \notin DOMAIN trackers
           THEN /\ SkipGame(g)
                /\ idx' = idx + 1
                /\ pc' = pc
           ELSE IF ComparisonRaises(ScoreGet(g.home_score), ScoreGet(g.away_score))
           THEN \* TypeError leaves the loop and the command
                /\ UNCHANGED <<trackers, h2h_records, games_db>>
                /\ idx' = idx
                /\ pc' = "type_error"
           ELSE LET pre == pre_game_state(trackers, g)
                    after == ApplyCompleted(trackers, h2h_records, g)
                IN  /\ trackers' = after.trackers
                    /\ h2h_records' = after.h2h_records
                    /\ games_db' = update_or_create(games_db, GameKey(g),
                                       CompletedRow(ExistingRow(games_db, GameKey(g)),
                                                    pre, after.h2h_records, g))
                    /\ idx' = idx + 1
                    /\ pc' = pc
    /\ UNCHANGED <<all_games, pass_input, completed, scheduled, teams_db,
                   team_var, run_no, cut_date, full_db,
                   full_trackers>>

\* Lines 412-419: every Team row is rewritten from its tracker.
UpdateTeams ==
    /\ UNCHANGED notPass
    /\ pc = "completed"
    /\ idx > Len(completed)
    /\ teams_db' = UpdateAllTeams(teams_db, trackers)
    /\ LET stop == FirstZeroDivision(trackers)
       IN  IF stop > Len(TeamsByName)
           THEN /\ team_var' = TeamsByName[Len(TeamsByName)]
                /\ pc' = "scheduled"
           ELSE \* ZeroDivisionError leaves the loop and the command
                /\ team_var' = TeamsByName[stop]
                /\ pc' = "zero_division"
    /\ idx' = 1
    /\ UNCHANGED <<all_games, pass_input, completed, scheduled, trackers,
                   h2h_records, games_db, run_no, cut_date, full_db,
                   full_trackers>>

\* One iteration of `for api_game in scheduled`.
ProcessScheduled ==
    /\ UNCHANGED notPass
    /\ pc = "scheduled"
    /\ idx <= Len(scheduled)
    /\ LET g == scheduled[idx]
       IN  IF g.home \notin KnownTeams \/ g.away \notin KnownTeams
           THEN \* Team.DoesNotExist: continue
                /\ idx' = idx + 1
                /\ UNCHANGED <<games_db, pc>>
           ELSE \E instance \in Instances, ml \in MlBehaviours :
                LET row == ScheduledRow(ExistingRow(games_db, GameKey(g)), trackers,
                                        h2h_records, teams_db, team_var, g)
                    prediction == predict_game(instance, teams_db[g.home],
                                               teams_db[g.away], g.date, row, ml)
                IN  IF UnpackRaises(prediction)
                    THEN \* ValueError leaves the loop and the command
                         /\ games_db' = update_or_create(games_db, GameKey(g), row)
                         /\ pc' = "raised"
                         /\ idx' = idx
                    ELSE /\ games_db' = update_or_create(games_db, GameKey(g),
                                            [row EXCEPT !.prediction = prediction])
                         /\ pc' = pc
                         /\ idx' = idx + 1
    /\ UNCHANGED <<all_games, pass_input, completed, scheduled, trackers,
                   h2h_records, teams_db, team_var, run_no, cut_date, full_db,
                   full_trackers>>

\* The loop over the scheduled games is exhausted: the command returns.
FinishPass ==
    /\ UNCHANGED notPass
    /\ pc = "scheduled"
    /\ idx > Len(scheduled)
    /\ pc' = "done"
    /\ UNCHANGED <<all_games, pass_input, completed, scheduled, idx, trackers,
                   h2h_records, games_db, teams_db, team_var, run_no, cut_date, full_db,
                   full_trackers>>

\* [g for g in all_games if g.date <= D]
DatePrefix(games, d) == SelectSeq(games, LAMBDA g : g.date <= d)

\* The command is run again, on the games dated on or before D.
Rerun ==
    /\ UNCHANGED notPass
    /\ pc \in {"done", "raised", "type_error", "zero_division"}
    /\ run_no = 1
    /\ \E d \in Dates :
        /\ cut_date' = d
        /\ pass_input' = DatePrefix(all_games, d)
    /\ run_no' = 2
    /\ full_db' = games_db
    /\ full_trackers' = trackers
    /\ pc' = "start"
    /\ UNCHANGED <<all_games, completed, scheduled, idx, trackers, h2h_records,
                   games_db, teams_db, team_var>>

\* The orders in which the API may hand over the same games.
Reorderings(games) ==
    LET n == Len(games)
        orders == {p \in [1..n -> 1..n] : \A i, j \in 1..n : i # j => p[i] # p[j]}
    IN  {[i \in 1..n |-> games[p[i]]] : p \in orders}

\* The command is run again, on the same games in another order.
RerunPermuted ==
    /\ UNCHANGED notPass
    /\ pc \in {"done", "raised", "type_error", "zero_division"}
    /\ run_no = 1
    /\ \E games \in Reorderings(all_games) :
        /\ games # all_games
        /\ pass_input' = games
    /\ run_no' = 3
    /\ full_db' = games_db
    /\ full_trackers' = trackers
    /\ pc' = "start"
    /\ UNCHANGED <<all_games, completed, scheduled, idx, trackers, h2h_records,
                   games_db, teams_db, team_var, cut_date>>

PassNext == BeginPass \/ ProcessCompleted \/ UpdateTeams \/ ProcessScheduled
            \/ FinishPass \/ Rerun \/ RerunPermuted


\* The parts of the model a specification does not exercise stay as they are.
PassIdle ==
    /\ all_games = <<>> /\ pass_input = <<>> /\ pc = "idle"
    /\ completed = <<>> /\ scheduled = <<>> /\ idx = 1
    /\ trackers = NewTrackers /\ h2h_records = NewH2H
    /\ games_db = <<>> /\ teams_db = [t \in KnownTeams |-> DefaultTeam]
    /\ team_var = NoTeam /\ run_no = 1 /\ cut_date = MaxDate /\ full_db = <<>>
    /\ full_trackers = NewTrackers

EloIdle ==
    /\ tracker_elo = <<>> /\ model_elo = <<>>
    /\ elo_last = [updater |-> "none"] /\ elo_games = 0

SyncIdle ==
    /\ api_games = <<>> /\ sync_teams = <<>> /\ sync_games = <<>>
    /\ sync_pc = "off" /\ sync_idx = 1 /\ sync_run = 0
    /\ sync_applied = <<>> /\ sync_before = <<>> /\ sync_quiet = FALSE
    /\ sync_picks = <<>> /\ sync_profile = [total_picks |-> 0, correct_picks |-> 0]

PredIdle ==
    /\ artifact = MissingBundle /\ ml_instance = NoInstance
    /\ call = [via |-> "none"] /\ result = <<>>

TrainIdle ==
    /\ train_run = 0 /\ train_pc = 0 /\ train_open = FALSE
    /\ load_pc = 0 /\ loading = MLPredictorFresh

TrackIdle ==
    /\ the_tracker = TeamTracker /\ recorded = <<>> /\ asked = [date |-> NoDate]

HistIdle ==
    /\ hist_games = <<>> /\ hist_idx = 1
    /\ team_stats = <<>> /\ h2h_by_season = <<>>

RollIdle ==
    /\ roll_tracker = TeamTracker /\ roll_stats = NewTeamStats /\ roll_results = <<>>

\* The chronological pass, run on a fetched list and then re-run on a
\* date prefix of it.
Init ==
    PassInit /\ EloIdle /\ SyncIdle /\ PredIdle /\ TrainIdle /\ TrackIdle
    /\ HistIdle /\ RollIdle
Spec == Init /\ [][PassNext]_vars


(***************************************************************************)
(* Properties of the chronological pass.                                   *)
(***************************************************************************)
\* Both teams of the game have a Team row (and so a tracker).
Tracked(g) == g.home \in KnownTeams /\ g.away \in KnownTeams

\* The tracker and head-to-head state that results from the tracked games
\* of s, applied in order to fresh state.
RECURSIVE StateAfter(_)
StateAfter(s) ==
    IF s = <<>> THEN [trackers |-> NewTrackers, h2h_records |-> NewH2H]
    ELSE LET before == StateAfter(SubSeq(s, 1, Len(s) - 1))
             g == s[Len(s)]
         IN  IF Tracked(g)
             THEN ApplyCompleted(before.trackers, before.h2h_records, g)
             ELSE before

\* The pre-game fields of a stored Game row.
SnapshotOf(row) ==
    [home_rest_days |-> row.home_rest_days, away_rest_days |-> row.away_rest_days,
     home_b2b |-> row.home_b2b, away_b2b |-> row.away_b2b,
     home_3in4 |-> row.home_3in4, away_3in4 |-> row.away_3in4,
     home_elo_pre |-> row.home_elo_pre, away_elo_pre |-> row.away_elo_pre,
     home_streak_pre |-> row.home_streak_pre, away_streak_pre |-> row.away_streak_pre,
     h2h_home_wins |-> row.h2h_home_wins, h2h_away_wins |-> row.h2h_away_wins]

\* The pre-game fields of game g as they follow from the state st alone.
SnapshotFrom(st, g) ==
    [home_rest_days |-> rest_days(st.trackers[g.home], g.date),
     away_rest_days |-> rest_days(st.trackers[g.away], g.date),
     home_b2b |-> is_b2b(st.trackers[g.home], g.date),
     away_b2b |-> is_b2b(st.trackers[g.away], g.date),
     home_3in4 |-> is_3in4(st.trackers[g.home], g.date),
     away_3in4 |-> is_3in4(st.trackers[g.away], g.date),
     home_elo_pre |-> RoundNearest(st.trackers[g.home].elo, 100),
     away_elo_pre |-> RoundNearest(st.trackers[g.away].elo, 100),
     home_streak_pre |-> st.trackers[g.home].current_streak,
     away_streak_pre |-> st.trackers[g.away].current_streak,
     h2h_home_wins |-> H2HHomeWins(st.h2h_records, g),
     h2h_away_wins |-> H2HAwayWins(st.h2h_records, g)]

\* The completed game the pass has just stored, if any.
JustStoredCompleted == pc = "completed" /\ idx > 1 /\ Tracked(completed[idx - 1])

\* C1: every pre-game field stored for a completed game G (rest days,
\* back-to-back and 3-in-4 flags, pre-game Elo and streak, head-to-head
\* tallies) equals the value derived only from the games strictly earlier
\* than G in the date-sorted order; G's own result contributes to none.
C1_CompletedSnapshotFromEarlierGames ==
    JustStoredCompleted =>
        LET g == completed[idx - 1]
            earlier == StateAfter(SubSeq(completed, 1, idx - 2))
        IN  SnapshotOf(games_db[GameKey(g)]) = SnapshotFrom(earlier, g)

\* C2: the re-run of the pass on the games dated on or before D leaves, for
\* every game of that prefix, the same pre-game fields as the run over the
\* full list did.
C2_PrefixRerunSameSnapshots ==
    (run_no = 2 /\ pc \in {"done", "raised"}) =>
        \A i \in 1..Len(pass_input) :
            LET k == GameKey(pass_input[i])
            IN  (k \in DOMAIN games_db /\ k \in DOMAIN full_db) =>
                    SnapshotOf(games_db[k]) = SnapshotOf(full_db[k])

\* Position in the sorted list s of its n-th game that is not Final.
RECURSIVE NthNotFinal(_, _, _)
NthNotFinal(s, n, from) ==
    IF IsNotFinal(s[from])
    THEN IF n = 1 THEN from ELSE NthNotFinal(s, n - 1, from + 1)
    ELSE NthNotFinal(s, n, from + 1)

\* The completed games placed before the idx-th scheduled game in the
\* date-sorted order of the input.
CompletedBeforeScheduled(i) ==
    LET sorted == SortByDate(pass_input)
    IN  SelectSeq(SubSeq(sorted, 1, NthNotFinal(sorted, i, 1) - 1), IsFinal)

\* The pass is about to visit a scheduled game of two known teams.
VisitingScheduled == pc = "scheduled" /\ idx <= Len(scheduled) /\ Tracked(scheduled[idx])

\* C3: when a not-yet-completed game dated D is visited, the state of its
\* two teams and their head-to-head tallies reflect only the games placed
\* before it in the date-sorted order, and no completed game dated later
\* than D has been applied to either team.
C3_ScheduledSeesOnlyEarlierGames ==
    VisitingScheduled =>
        LET g == scheduled[idx]
            before == StateAfter(CompletedBeforeScheduled(idx))
        IN  /\ trackers[g.home] = before.trackers[g.home]
            /\ trackers[g.away] = before.trackers[g.away]
            /\ h2h_records[h2h_key(g.home, g.away)]
                 = before.h2h_records[h2h_key(g.home, g.away)]
            /\ \A j \in 1..Len(completed) :
                 (Tracked(completed[j])
                  /\ {completed[j].home, completed[j].away} \cap {g.home, g.away} # {})
                     => completed[j].date <= g.date

\* The scheduled game the pass visited last, if its teams are known.
VisitedScheduled ==
    /\ pc \in {"scheduled", "raised", "done"}
    /\ scheduled # <<>>
    /\ LET last == IF pc = "raised" THEN idx ELSE idx - 1
       IN  last >= 1 /\ Tracked(scheduled[last])

\* C4: processing a scheduled game of two known teams does not raise, the
\* five prediction outputs (home win probability, confidence, spread,
\* predicted home and away score) are written onto the game, and the pass
\* goes on to the next scheduled game.
C4_ScheduledGamePredicted ==
    /\ pc # "raised"
    /\ VisitedScheduled =>
         LET last == IF pc = "raised" THEN idx ELSE idx - 1
         IN  Len(games_db[GameKey(scheduled[last])].prediction) = 5

\* The pass is about to visit a game one of whose teams has no Team row.
VisitingUnknownTeamGame ==
    \/ pc = "completed" /\ idx <= Len(completed) /\ ~Tracked(completed[idx])
    \/ pc = "scheduled" /\ idx <= Len(scheduled) /\ ~Tracked(scheduled[idx])

\* C12: a game with a team that has no match among the known teams is
\* skipped entirely: the step that visits it leaves every tracker (and so
\* every Elo rating), every head-to-head tally, every Game row and every
\* Team row as they were, and moves the pass on to the next game.
C12_UnknownTeamGameSkipped ==
    [][VisitingUnknownTeamGame =>
          /\ UNCHANGED <<trackers, h2h_records, games_db, teams_db>>
          /\ idx' = idx + 1
          /\ pc' = pc]_vars

\* A completed game with an unknown home team was passed over and the
\* completed game after it, between known teams, was processed and stored.
C12_Witness ==
    /\ pc = "completed" /\ idx = 3
    /\ ~Tracked(completed[1]) /\ Tracked(completed[2])
    /\ GameKey(completed[1]) \notin DOMAIN games_db
    /\ GameKey(completed[2]) \in DOMAIN games_db
    /\ \A t \in KnownTeams : games_played(trackers[t]) <= 1

\* A score of the game is null or not given.
MissingScore(g) ==
    g.home_score \in {NoScore, Absent} \/ g.away_score \in {NoScore, Absent}

\* The pass is about to visit a Final game of known teams with a score
\* missing.
VisitingScorelessFinal ==
    /\ pc = "completed" /\ idx <= Len(completed)
    /\ Tracked(completed[idx]) /\ MissingScore(completed[idx])

\* C13: a Final game with a missing score is skipped: the step that visits
\* it changes no tracker, Elo rating or head-to-head tally, stores no
\* result for it, and the pass goes on with the remaining games.
C13_ScorelessFinalSkipped ==
    [][VisitingScorelessFinal =>
          /\ UNCHANGED <<trackers, h2h_records, games_db>>
          /\ idx' = idx + 1
          /\ pc' = pc]_vars


\* The pass is about to process a Final game of known teams whose scores
\* can be compared.
ProcessingResult ==
    /\ pc = "completed" /\ idx <= Len(completed)
    /\ Tracked(completed[idx])
    /\ ~ComparisonRaises(ScoreGet(completed[idx].home_score),
                         ScoreGet(completed[idx].away_score))

\* The tracker `after` has recorded an opponent with the winning percentage
\* and the Elo that tracker `opponent` held, on top of what `before` had.
RecordedOpponent(before, after, opponent) ==
    /\ after.opponents = Append(before.opponents, win_pct(opponent))
    /\ after.opponent_elos = Append(before.opponent_elos, opponent.elo)
    /\ after.vs_above_500_wins + after.vs_above_500_losses
         = before.vs_above_500_wins + before.vs_above_500_losses
           + (IF win_pct(opponent) >= 500000 THEN 1 ELSE 0)
    /\ after.vs_below_500_wins + after.vs_below_500_losses
         = before.vs_below_500_wins + before.vs_below_500_losses
           + (IF win_pct(opponent) < 500000 THEN 1 ELSE 0)

\* C23: when a completed game is processed, the opponent winning percentage
\* and opponent Elo recorded into each of the two trackers, for strength of
\* schedule and the tallies against teams above and below .500, are the
\* opponent's values before this game, for the home and the away team alike.
C23_OpponentValuesArePreGame ==
    [][ProcessingResult =>
          LET g == completed[idx]
          IN  /\ RecordedOpponent(trackers[g.home], trackers'[g.home], trackers[g.away])
              /\ RecordedOpponent(trackers[g.away], trackers'[g.away], trackers[g.home])]_vars

\* C24: for every scheduled game written by the pass, the stored pre-game
\* Elo of the home side is the home team's own current Elo rating and that
\* of the away side is the away team's own current Elo rating.
C24_ScheduledEloIsOwnRating ==
    VisitedScheduled =>
        LET last == IF pc = "raised" THEN idx ELSE idx - 1
            g == scheduled[last]
            row == games_db[GameKey(g)]
        IN  /\ row.home_elo_pre = teams_db[g.home].elo_rating
            /\ row.away_elo_pre = teams_db[g.away].elo_rating

\* The number of completed games the pass has applied to the trackers.
GamesApplied ==
    LET visited == IF pc \in {"completed", "type_error"} THEN idx - 1 ELSE Len(completed)
    IN  Cardinality({j \in 1..visited : Tracked(completed[j])})

\* The wins and the losses of all trackers together.
LeagueWins == SumSeq([k \in 1..Len(TeamsByName) |-> trackers[TeamsByName[k]].wins])
LeagueLosses == SumSeq([k \in 1..Len(TeamsByName) |-> trackers[TeamsByName[k]].losses])

\* C28: after any sequence of completed games processed by the pass, every
\* tracker has wins = home_wins + away_wins, losses = home_losses +
\* away_losses, and its four tallies against teams above and below .500
\* add up to wins + losses; across the league the wins and the losses each
\* add up to the number of completed games processed.
C28_TrackerTalliesAddUp ==
    pc \notin {"start", "idle"} =>
        /\ \A a \in KnownTeams :
            LET t == trackers[a]
            IN  /\ t.wins = t.home_wins + t.away_wins
                /\ t.losses = t.home_losses + t.away_losses
                /\ t.vs_above_500_wins + t.vs_above_500_losses
                   + t.vs_below_500_wins + t.vs_below_500_losses = t.wins + t.losses
        /\ LeagueWins = GamesApplied
        /\ LeagueLosses = GamesApplied

\* Two completed games were applied, one won by its home team and one by
\* its visitor, and a team met an opponent below .500.
C28_Witness ==
    /\ pc = "completed" /\ idx = 3
    /\ GamesApplied = 2
    /\ \E a, b \in KnownTeams : trackers[a].home_wins = 1 /\ trackers[b].away_wins = 1
    /\ \E a \in KnownTeams :
         trackers[a].vs_below_500_wins + trackers[a].vs_below_500_losses > 0

\* No team plays twice on the same date in the list.
NoTeamTwiceADay(games) ==
    \A i, j \in 1..Len(games) :
        (i < j /\ games[i].date = games[j].date) =>
            {games[i].home, games[i].away} \cap {games[j].home, games[j].away} = {}

\* The command has returned or has been left by an exception.
PassEnded == pc \in {"done", "raised", "type_error", "zero_division"}

\* C29: when no team plays twice on the same date, the pass run on the same
\* games in another order stores a snapshot for the same games, with the
\* same pre-game fields, and leaves every team's tracker in the same state
\* as the run on the first order did.
C29_OrderOfInputIrrelevant ==
    (run_no = 3 /\ PassEnded /\ NoTeamTwiceADay(all_games)) =>
        /\ trackers = full_trackers
        /\ \A i \in 1..Len(all_games) :
            LET k == GameKey(all_games[i])
            IN  /\ k \in DOMAIN games_db <=> k \in DOMAIN full_db
                /\ k \in DOMAIN games_db =>
                       SnapshotOf(games_db[k]) = SnapshotOf(full_db[k])

(***************************************************************************)
(* The two Elo updaters applied to a sequence of results.                  *)
(***************************************************************************)
\* Winning margins: the least, two ordinary ones and a blowout.
Margins == {1, 5, 12, 30}

\* Sum of a rating table over the teams.
SumOver(f) == SumSeq([k \in 1..Len(TeamsByName) |-> f[TeamsByName[k]]])

EloInit ==
    /\ tracker_elo = [t \in KnownTeams |-> TeamTracker.elo]
    /\ model_elo = [t \in KnownTeams |-> DefaultTeam.elo_rating]
    /\ elo_last = [updater |-> "none"]
    /\ elo_games = 0

\* The Elo step of a completed game in the pass: Command._update_elo on the
\* two trackers.  Changes are in thousandths (unit 1).
TrackerResult ==
    /\ UNCHANGED notElo
    /\ elo_games < MaxEloGames
    /\ \E winner \in KnownTeams, loser \in KnownTeams,
          winner_is_home \in BOOLEAN, margin \in Margins :
        /\ winner # loser
        /\ LET elo_change == _update_elo(tracker_elo[winner], tracker_elo[loser],
                                         winner_is_home, margin)
               after == [tracker_elo EXCEPT
                            ![winner] = TrackerEloAdd(@, elo_change),
                            ![loser] = TrackerEloSub(@, elo_change)]
           IN  /\ tracker_elo' = after
               /\ elo_last' = [updater |-> "tracker", unit |-> 1,
                               winner_before |-> tracker_elo[winner],
                               loser_before |-> tracker_elo[loser],
                               winner_is_home |-> winner_is_home, margin |-> margin,
                               returned |-> elo_change,
                               winner_change |-> after[winner] - tracker_elo[winner],
                               loser_change |-> after[loser] - tracker_elo[loser]]
    /\ elo_games' = elo_games + 1
    /\ UNCHANGED model_elo

\* NBAPredictor.update_elo_after_game on two Team rows.  Changes are in
\* tenths (unit 100 thousandths), the returned delta in thousandths.
ModelResult ==
    /\ UNCHANGED notElo
    /\ elo_games < MaxEloGames
    /\ \E winner \in KnownTeams, loser \in KnownTeams,
          winner_is_home \in BOOLEAN, margin \in Margins :
        /\ winner # loser
        /\ LET elo_change == update_elo_after_game(model_elo[winner], model_elo[loser],
                                                   winner_is_home, margin)
               after == [model_elo EXCEPT
                            ![winner] = RatingAdd(@, elo_change),
                            ![loser] = RatingSub(@, elo_change)]
           IN  /\ model_elo' = after
               /\ elo_last' = [updater |-> "model", unit |-> 100,
                               winner_before |-> model_elo[winner],
                               loser_before |-> model_elo[loser],
                               winner_is_home |-> winner_is_home, margin |-> margin,
                               returned |-> elo_change,
                               winner_change |-> after[winner] - model_elo[winner],
                               loser_change |-> after[loser] - model_elo[loser]]
    /\ elo_games' = elo_games + 1
    /\ UNCHANGED tracker_elo

EloNext == TrackerResult \/ ModelResult

\* Results applied one after another through either updater.
InitElo ==
    PassIdle /\ EloInit /\ SyncIdle /\ PredIdle /\ TrainIdle /\ TrackIdle
    /\ HistIdle /\ RollIdle
SpecElo == InitElo /\ [][EloNext]_vars

\* The ratings of all teams add up to what they did at the start.
EloSumKept ==
    /\ SumOver(tracker_elo) = Len(TeamsByName) * TeamTracker.elo
    /\ SumOver(model_elo) = Len(TeamsByName) * DefaultTeam.elo_rating

DeltaAtMargin(m) ==
    IF elo_last.updater = "tracker"
    THEN _update_elo(elo_last.winner_before, elo_last.loser_before,
                     elo_last.winner_is_home, m)
    ELSE update_elo_after_game(elo_last.winner_before, elo_last.loser_before,
                               elo_last.winner_is_home, m)

\* C18: with the two pre-game ratings and the home side fixed, the Elo
\* delta never decreases as the margin grows, and the gain from each
\* additional point of margin is strictly smaller than the gain from the
\* point before it; for both updaters.
C18_EloDeltaConcaveInMargin ==
    elo_last.updater # "none" =>
        LET m == elo_last.margin
        IN  /\ DeltaAtMargin(m) = elo_last.returned
            /\ DeltaAtMargin(m + 1) >= DeltaAtMargin(m)
            /\ DeltaAtMargin(m + 2) >= DeltaAtMargin(m + 1)
            /\ DeltaAtMargin(m + 1) - DeltaAtMargin(m)
                 > DeltaAtMargin(m + 2) - DeltaAtMargin(m + 1)


(***************************************************************************)
(* sync_games_from_api (nba_api.py), run again and again over a window of  *)
(* dates, with one user picking winners between the runs.                  *)
(***************************************************************************)
SyncDates == 1..MaxSyncDate
SyncMatchups == {<<"BOS", "ATL">>, <<"ATL", "BOS">>, <<UnknownTeam, "BOS">>}

\* What the API reports of a game: not started, under way, or Final.
SyncOutcomes ==
    {[status |-> "Scheduled", period |-> 0, home_score |-> 0, away_score |-> 0],
     [status |-> "In Progress", period |-> 2, home_score |-> 55, away_score |-> 50],
     [status |-> "Final", period |-> 4, home_score |-> 110, away_score |-> 100],
     [status |-> "Final", period |-> 4, home_score |-> 98, away_score |-> 105]}

SyncApiGames ==
    {[date |-> d, home |-> m[1], away |-> m[2], status |-> o.status,
      period |-> o.period, home_score |-> o.home_score, away_score |-> o.away_score] :
        d \in SyncDates, m \in SyncMatchups, o \in SyncOutcomes}

SyncKeys == {GameKey(g) : g \in SyncApiGames}

\* The API lists every game of the window once.
SyncGameLists ==
    {l \in UNION {[1..n -> SyncApiGames] : n \in 1..MaxSyncGames} :
        \A i, j \in DOMAIN l : i # j => GameKey(l[i]) # GameKey(l[j])}

\* A Team row of a side that has played three games.
PlayedTeam == [DefaultTeam EXCEPT !.wins = 2, !.losses = 1]

\* What the learned model, when loaded, answers during a sync.
SyncMl == [features_ok |-> TRUE, raises |-> FALSE, spread |-> 70, total |-> 2275]

\* status as sync_games_from_api derives it
SyncStatus(g) ==
    IF g.status = "Final" THEN "final"
    ELSE IF g.period > 0 THEN "in_progress" ELSE "scheduled"

\* round((avg * (games_played - 1) + score) / games_played, 1), in tenths
AvgAfter(avg, played, score) == RoundNearest(avg * (played - 1) + score * 10, played)

\* update_team_after_game: the two Team rows as it saves them.
update_team_after_game(home_team, away_team, home_score, away_score, game_date) ==
    LET home_won == home_score > away_score
        margin == IF home_won THEN home_score - away_score ELSE away_score - home_score
        elo_change == IF home_won
                      THEN update_elo_after_game(home_team.elo_rating,
                                                 away_team.elo_rating, TRUE, margin)
                      ELSE update_elo_after_game(away_team.elo_rating,
                                                 home_team.elo_rating, FALSE, margin)
        home_played == home_team.wins + home_team.losses
        away_played == away_team.wins + away_team.losses
        home1 == [home_team EXCEPT
                    !.elo_rating = IF home_won THEN RatingAdd(@, elo_change)
                                   ELSE RatingSub(@, elo_change),
                    !.last_game_date = game_date]
        away1 == [away_team EXCEPT
                    !.elo_rating = IF home_won THEN RatingSub(@, elo_change)
                                   ELSE RatingAdd(@, elo_change),
                    !.last_game_date = game_date]
    IN  [home |-> IF home_played > 0
                  THEN [home1 EXCEPT
                          !.avg_points_scored = AvgAfter(@, home_played, home_score),
                          !.avg_points_allowed = AvgAfter(@, home_played, away_score)]
                  ELSE home1,
         away |-> IF away_played > 0
                  THEN [away1 EXCEPT
                          !.avg_points_scored = AvgAfter(@, away_played, away_score),
                          !.avg_points_allowed = AvgAfter(@, away_played, home_score)]
                  ELSE away1]

\* Game.winner of a stored row with key <<date, home, away>>: "" for None
winner(key, row) ==
    IF row.status # "final" \/ row.home_score = NoScore \/ row.away_score = NoScore
    THEN NoTeam
    ELSE IF row.home_score > row.away_score THEN key[2] ELSE key[3]

\* An evaluation that does not look at the evaluated flag of the pick.
evaluate_every_pick_for_game(picks, profile, key, row) ==
    IF winner(key, row) = NoTeam \/ key \notin DOMAIN picks
    THEN [picks |-> picks, profile |-> profile]
    ELSE [picks |-> [picks EXCEPT ![key].evaluated = TRUE],
          profile |-> IF picks[key].picked_team = winner(key, row)
                      THEN [profile EXCEPT !.correct_picks = @ + 1]
                      ELSE profile]

\* evaluate_user_picks_for_game: the picks and the profile as it leaves them.
evaluate_user_picks_for_game(picks, profile, key, row) ==
    IF winner(key, row) = NoTeam \/ key \notin DOMAIN picks \/ picks[key].evaluated
    THEN [picks |-> picks, profile |-> profile]
    ELSE [picks |-> [picks EXCEPT ![key].evaluated = TRUE],
          profile |-> IF picks[key].picked_team = winner(key, row)
                      THEN [profile EXCEPT !.correct_picks = @ + 1]
                      ELSE profile]

SyncInit ==
    /\ api_games \in SyncGameLists
    /\ sync_teams \in {[t \in KnownTeams |-> DefaultTeam], [t \in KnownTeams |-> PlayedTeam]}
    /\ sync_games = <<>>
    /\ sync_pc = "idle"
    /\ sync_idx = 1
    /\ sync_run = 0
    /\ sync_applied = [k \in SyncKeys |-> 0]
    /\ sync_before = sync_teams
    /\ sync_quiet = FALSE
    /\ sync_picks = <<>>
    /\ sync_profile = [total_picks |-> 0, correct_picks |-> 0]
    \* the process that runs the syncs has not yet built its predictor
    /\ artifact \in {ValidBundle, MissingBundle, CorruptBundle}
    /\ ml_instance = NoInstance
    /\ call = [via |-> "none"]
    /\ result = <<>>

\* Final games of known teams in the list that no earlier run has applied.
NewlyFinal(l) ==
    {i \in DOMAIN l : /\ Tracked(l[i])
                      /\ SyncStatus(l[i]) = "final"
                      /\ sync_applied[GameKey(l[i])] = 0}

\* sync_games_from_api is called: the games of the window are fetched.
SyncBegin ==
    /\ UNCHANGED notSync
    /\ sync_pc = "idle"
    /\ sync_run < MaxSyncRuns
    /\ sync_run' = sync_run + 1
    /\ sync_idx' = 1
    /\ sync_pc' = "loop"
    /\ sync_before' = sync_teams
    /\ sync_quiet' = (NewlyFinal(api_games) = {})
    /\ UNCHANGED <<api_games, sync_teams, sync_games, sync_applied, sync_picks,
                   sync_profile>>

\* One iteration of `for api_game in all_games`.
SyncGame ==
    /\ UNCHANGED <<passVars, eloVars, trainVars, trackVars, histVars, rollVars,
                   artifact, call, result>>
    /\ sync_pc = "loop"
    /\ sync_idx <= Len(api_games)
    /\ LET g == api_games[sync_idx]
           key == GameKey(g)
       IN  IF ~Tracked(g)
           THEN \* Team.DoesNotExist: continue
                UNCHANGED <<sync_teams, sync_games, sync_applied, sync_picks,
                            sync_profile, ml_instance>>
           ELSE LET status == SyncStatus(g)
                    final == status = "final"
                    instance == get_ml_predictor(ml_instance, artifact)
                    prediction == predict_game(instance, sync_teams[g.home],
                                               sync_teams[g.away], g.date, NoGame, SyncMl)
                    row == [ExistingRow(sync_games, key) EXCEPT
                              !.home_score = IF final THEN g.home_score ELSE NoScore,
                              !.away_score = IF final THEN g.away_score ELSE NoScore,
                              !.status = status,
                              !.prediction = prediction]
                    after == update_team_after_game(sync_teams[g.home], sync_teams[g.away],
                                                    g.home_score, g.away_score, g.date)
                    evaluated == evaluate_user_picks_for_game(sync_picks, sync_profile,
                                                              key, row)
                IN  /\ ml_instance' = instance
                    /\ sync_games' = update_or_create(sync_games, key, row)
                    /\ IF final
                       THEN /\ sync_teams' = [sync_teams EXCEPT ![g.home] = after.home,
                                                                ![g.away] = after.away]
                            /\ sync_applied' = [sync_applied EXCEPT ![key] = @ + 1]
                            /\ sync_picks' = evaluated.picks
                            /\ sync_profile' = evaluated.profile
                       ELSE UNCHANGED <<sync_teams, sync_applied, sync_picks, sync_profile>>
    /\ sync_idx' = sync_idx + 1
    /\ UNCHANGED <<api_games, sync_pc, sync_run, sync_before, sync_quiet>>

\* The loop is exhausted: sync_games_from_api returns.
SyncEnd ==
    /\ UNCHANGED notSync
    /\ sync_pc = "loop"
    /\ sync_idx > Len(api_games)
    /\ sync_pc' = "idle"
    /\ UNCHANGED <<api_games, sync_teams, sync_games, sync_idx, sync_run,
                   sync_applied, sync_before, sync_quiet, sync_picks, sync_profile>>

\* Between two runs a game of the window gets under way or ends.
ApiProgress ==
    /\ UNCHANGED notSync
    /\ sync_pc = "idle"
    /\ sync_run >= 1
    /\ \E i \in DOMAIN api_games, o \in SyncOutcomes :
        /\ api_games[i].period < o.period
        /\ api_games' = [api_games EXCEPT ![i] =
                            [@ EXCEPT !.status = o.status, !.period = o.period,
                                      !.home_score = o.home_score,
                                      !.away_score = o.away_score]]
    /\ UNCHANGED <<sync_teams, sync_games, sync_pc, sync_idx, sync_run,
                   sync_applied, sync_before, sync_quiet, sync_picks, sync_profile>>

\* views.game_detail, POST on a scheduled game: the user's pick is created,
\* or its team is changed.
MakePick ==
    /\ UNCHANGED notSync
    /\ sync_pc = "idle"
    /\ \E key \in DOMAIN sync_games, picked_team \in KnownTeams :
        /\ sync_games[key].status = "scheduled"
        /\ picked_team \in {key[2], key[3]}
        /\ IF key \in DOMAIN sync_picks
           THEN /\ sync_picks[key].picked_team # picked_team
                /\ sync_picks' = [sync_picks EXCEPT ![key].picked_team = picked_team]
                /\ UNCHANGED sync_profile
           ELSE /\ sync_picks' = [k \in DOMAIN sync_picks \cup {key} |->
                                    IF k = key
                                    THEN [picked_team |-> picked_team, evaluated |-> FALSE]
                                    ELSE sync_picks[k]]
                /\ sync_profile' = [sync_profile EXCEPT !.total_picks = @ + 1]
    /\ UNCHANGED <<api_games, sync_teams, sync_games, sync_pc, sync_idx, sync_run,
                   sync_applied, sync_before, sync_quiet>>

SyncNext == SyncBegin \/ SyncGame \/ SyncEnd \/ ApiProgress \/ MakePick

\* Repeated syncs of one window.
InitSync ==
    PassIdle /\ EloIdle /\ SyncInit /\ TrainIdle /\ TrackIdle
    /\ HistIdle /\ RollIdle
SpecSync == InitSync /\ [][SyncNext]_vars

\* C6: the result of a completed game is applied to its teams exactly once:
\* update_team_after_game runs at most once for it, and a run in which no
\* game is seen Final for the first time leaves every Elo rating as the
\* earlier runs left it.
C6_ResultAppliedOnce ==
    /\ \A k \in DOMAIN sync_applied : sync_applied[k] <= 1
    /\ (sync_pc = "idle" /\ sync_run >= 1 /\ sync_quiet) =>
          \A t \in KnownTeams : sync_teams[t].elo_rating = sync_before[t].elo_rating


\* The evaluated picks of the user that named the winner of their game.
EvaluatedCorrectPicks ==
    {key \in DOMAIN sync_picks :
        /\ sync_picks[key].evaluated
        /\ key \in DOMAIN sync_games
        /\ sync_picks[key].picked_team = winner(key, sync_games[key])}

\* The sync loop is about to process a game whose pick is marked evaluated.
SyncingEvaluatedPick ==
    /\ sync_pc = "loop" /\ sync_idx <= Len(api_games)
    /\ GameKey(api_games[sync_idx]) \in DOMAIN sync_picks
    /\ sync_picks[GameKey(api_games[sync_idx])].evaluated

\* C27: across the syncs that process the same final game again, each pick
\* is counted at most once: correct_picks is the number of evaluated picks
\* that named the winner, and the step that processes a game whose pick is
\* already marked evaluated leaves the picks and the user's counters alone.
C27_PickCountedOnce ==
    /\ [](sync_profile.correct_picks = Cardinality(EvaluatedCorrectPicks))
    /\ [][SyncingEvaluatedPick => UNCHANGED <<sync_picks, sync_profile>>]_vars

\* A final game was processed by two runs, the user had picked its winner,
\* and the pick counts once.
C27_Witness ==
    /\ sync_pc = "idle"
    /\ \E key \in DOMAIN sync_picks :
        /\ sync_applied[key] >= 2
        /\ sync_picks[key].evaluated
        /\ key \in EvaluatedCorrectPicks
    /\ sync_profile.correct_picks = 1


(***************************************************************************)
(* predict_game and NBAPredictor.predict_game called on team rows and      *)
(* snapshots of every kind, with the trained bundle present or not.        *)
(***************************************************************************)
\* Two rows at the far ends of what the fields can hold: every component
\* of the Heuristic Model favours the first over the second.
StrongTeam ==
    [DefaultTeam EXCEPT
        !.wins = 50, !.losses = 10,
        !.efg_pct = 900, !.tov_pct = 50, !.orb_pct = 500, !.ft_rate = 500,
        !.opp_efg_pct = 900, !.opp_tov_pct = 50, !.opp_orb_pct = 500,
        !.opp_ft_rate = 500,
        !.offensive_rating = 1250, !.defensive_rating = 1000, !.pace = 1040,
        !.elo_rating = 19000, !.last_game_date = 1, !.current_streak = 10,
        !.strength_of_schedule = 550, !.points_trend = 500, !.defense_trend = -500]
WeakTeam ==
    [DefaultTeam EXCEPT
        !.wins = 10, !.losses = 50,
        !.efg_pct = 300, !.tov_pct = 250, !.orb_pct = 100, !.ft_rate = 100,
        !.opp_efg_pct = 300, !.opp_tov_pct = 250, !.opp_orb_pct = 100,
        !.opp_ft_rate = 100,
        !.offensive_rating = 1000, !.defensive_rating = 1250, !.pace = 960,
        !.elo_rating = 11000, !.last_game_date = 2, !.current_streak = -10,
        !.strength_of_schedule = 450, !.points_trend = -500, !.defense_trend = 500]
\* A row whose ratings, pace and schedule strength are zero (falsy).
UnratedTeam ==
    [DefaultTeam EXCEPT
        !.wins = 3, !.losses = 4,
        !.offensive_rating = 0, !.defensive_rating = 0, !.pace = 0,
        !.strength_of_schedule = 0]

\* A home side at 10-2 and a visitor at 4-8, every other field at its
\* default.
HomeExample ==
    [DefaultTeam EXCEPT !.wins = 10, !.losses = 2, !.elo_rating = 16000,
                        !.offensive_rating = 1180, !.defensive_rating = 1080]
AwayExample ==
    [DefaultTeam EXCEPT !.wins = 4, !.losses = 8, !.elo_rating = 14500,
                        !.offensive_rating = 1080, !.defensive_rating = 1160]

TeamProfiles ==
    {DefaultTeam, PlayedTeam, StrongTeam, WeakTeam, UnratedTeam, HomeExample,
     AwayExample}

\* Game rows handed to the predictors: none, a fresh one, and two whose
\* schedule fields and tallies favour one side.
TiredHomeRow ==
    [NewGameRow EXCEPT !.home_rest_days = 1, !.away_rest_days = 7,
                       !.home_b2b = TRUE, !.home_3in4 = TRUE,
                       !.h2h_away_wins = 3]
TiredAwayRow ==
    [NewGameRow EXCEPT !.home_rest_days = 7, !.away_rest_days = 1,
                       !.away_b2b = TRUE, !.away_3in4 = TRUE,
                       !.h2h_home_wins = 4, !.h2h_away_wins = 1]
\* The home side on 2 days rest, the visitor on a back-to-back.
AwayBackToBackRow ==
    [NewGameRow EXCEPT !.home_rest_days = 2, !.away_rest_days = 1, !.away_b2b = TRUE]
GameRows == {NoGame, NewGameRow, TiredHomeRow, TiredAwayRow, AwayBackToBackRow}

PredInit ==
    /\ artifact \in Bundles
    /\ ml_instance = NoInstance
    /\ call = [via |-> "none"]
    /\ result = <<>>

\* No prediction has been asked for yet.
NotCalled == call.via = "none"

\* The bundle is trained, deleted or damaged on disk.
ArtifactChanges ==
    /\ UNCHANGED notPred
    /\ NotCalled
    /\ \E b \in Bundles \ {artifact} : artifact' = b
    /\ UNCHANGED <<ml_instance, call, result>>

\* The server process is restarted: get_ml_predictor._instance is gone.
Restart ==
    /\ UNCHANGED notPred
    /\ NotCalled
    /\ ml_instance # NoInstance
    /\ ml_instance' = NoInstance
    /\ UNCHANGED <<artifact, call, result>>

\* get_ml_predictor(), as an earlier request of the process called it.
GetMlPredictor ==
    /\ UNCHANGED notPred
    /\ NotCalled
    /\ ml_instance = NoInstance
    /\ ml_instance' = get_ml_predictor(ml_instance, artifact)
    /\ UNCHANGED <<artifact, call, result>>

\* predict_game(home_team, away_team, game_date, game)
PredictGame ==
    /\ UNCHANGED notPred
    /\ NotCalled
    /\ \E home_team \in TeamProfiles, away_team \in TeamProfiles,
          game_date \in Dates, game \in GameRows, ml \in MlBehaviours :
        LET instance == get_ml_predictor(ml_instance, artifact)
        IN  /\ ml_instance' = instance
            /\ call' = [via |-> "predict_game", instance |-> instance,
                        home_team |-> home_team, away_team |-> away_team,
                        game_date |-> game_date, game |-> game, ml |-> ml]
            /\ result' = predict_game(instance, home_team, away_team, game_date, game, ml)
    /\ UNCHANGED artifact

\* NBAPredictor().predict_game(home_team, away_team, game_date, game)
HeuristicPredictGame ==
    /\ UNCHANGED notPred
    /\ NotCalled
    /\ \E home_team \in TeamProfiles, away_team \in TeamProfiles,
          game_date \in Dates, game \in GameRows :
        /\ call' = [via |-> "NBAPredictor",
                    home_team |-> home_team, away_team |-> away_team,
                    game_date |-> game_date, game |-> game]
        /\ result' = NBAPredictor_predict_game(home_team, away_team, game_date, game)
    /\ UNCHANGED <<artifact, ml_instance>>

PredNext == ArtifactChanges \/ GetMlPredictor \/ Restart \/ PredictGame
            \/ HeuristicPredictGame

\* One prediction asked of a process, whatever happened to the bundle and
\* to the process before.
InitPredict ==
    PassIdle /\ EloIdle /\ SyncIdle /\ PredInit /\ TrainIdle /\ TrackIdle
    /\ HistIdle /\ RollIdle
SpecPredict == InitPredict /\ [][PredNext]_vars

\* The last call went to the Heuristic Model directly.
HeuristicCall == call.via = "NBAPredictor"

\* C7: whatever the team statistics, and with or without a game snapshot,
\* the Heuristic Model's home win probability lies in [15, 85] percent and
\* its confidence in [40, 92].
C7_HeuristicProbabilityAndConfidenceBounds ==
    HeuristicCall =>
        /\ result[1] >= 1500 /\ result[1] <= 8500
        /\ result[2] >= 4000 /\ result[2] <= 9200

\* A heuristic call whose weighted probability and whose combined
\* confidence both exceed their upper bounds before they are clamped.
C7_Witness ==
    /\ HeuristicCall
    /\ result[1] = 8500
    /\ result[2] = 9200

\* C8: the spread the Heuristic Model returns, recomputed from the rounded
\* and clamped scores, lies in [-16, 16].
C8_HeuristicSpreadBounds ==
    HeuristicCall => (result[3] >= -160 /\ result[3] <= 160)

\* A heuristic call between a strong home side and a weak visitor, whose
\* spread before clamping is far above 16: the returned spread is 16.
C8_Witness ==
    /\ HeuristicCall
    /\ call.home_team = StrongTeam /\ call.away_team = WeakTeam
    /\ result[3] = 160

\* C9: for a prediction returned by either model, predicted home score
\* minus predicted away score equals the returned spread exactly.
C9_ScoresMatchSpread ==
    call.via # "none" => result[3] = DecimalOfInt(result[4] - result[5])

\* The learned model answered with a spread beyond its clamp and a low
\* total: the scores were clamped and the spread recomputed from them.
C9_Witness ==
    /\ call.via = "predict_game"
    /\ call.instance.models_loaded
    /\ call.ml.features_ok /\ ~call.ml.raises
    /\ call.ml.spread > 160
    /\ result[3] # 160

\* The learned model could not serve the last predict_game call: the bundle
\* was missing or unreadable when the predictor was built, the features
\* could not be prepared, or scaling or predicting raised.
LearnedFailed ==
    /\ call.via = "predict_game"
    /\ \/ ~call.instance.models_loaded
       \/ ~call.ml.features_ok
       \/ call.ml.raises

\* C10: when the artifact is missing or unreadable, or the learned model
\* fails while predicting, predict_game does not raise and returns a
\* 5-tuple whose values are exactly the Heuristic Model's for the inputs.
C10_FallbackIsHeuristic ==
    LearnedFailed =>
        /\ result = NBAPredictor_predict_game(call.home_team, call.away_team,
                                              call.game_date, call.game)
        /\ Len(result) = 5

\* A call served while the bundle on disk is unreadable and the predictor,
\* built from it, has no models; it returned five values.
C10_Witness ==
    /\ LearnedFailed
    /\ artifact = CorruptBundle
    /\ ~call.instance.models_loaded
    /\ Len(result) = 5


(***************************************************************************)
(* train_ml_model saving a bundle (train_ml_model.py, "Save models") while *)
(* a server process builds its MLPredictor (ml_predictor.py).              *)
(***************************************************************************)
TrainInit ==
    /\ artifact \in {ValidBundle, MissingBundle}
    /\ ml_instance = NoInstance
    /\ call = [via |-> "none"]
    /\ result = <<>>
    /\ train_run = IF artifact = ValidBundle THEN 1 ELSE 0
    /\ train_pc = 0
    /\ train_open = FALSE
    /\ load_pc = 0
    /\ loading = MLPredictorFresh

\* A training run has fitted its models and reaches "Save models".
SaveModels ==
    /\ UNCHANGED notTrain
    /\ train_pc = 0
    /\ train_run < MaxTrainRuns
    /\ train_run' = train_run + 1
    /\ train_pc' = 1
    /\ train_open' = FALSE
    /\ UNCHANGED <<artifact, ml_instance, call, result, load_pc, loading>>

\* joblib.dump opens the file of the next part in place: until it is
\* closed, the file holds an incomplete pickle.
DumpOpen ==
    /\ UNCHANGED notTrain
    /\ train_pc \in 1..Len(PartNames)
    /\ ~train_open
    /\ artifact' = [artifact EXCEPT ![PartNames[train_pc]] = Garbled]
    /\ train_open' = TRUE
    /\ UNCHANGED <<ml_instance, call, result, train_run, train_pc, load_pc, loading>>

\* joblib.dump has written the part and closes the file.
DumpClose ==
    /\ UNCHANGED notTrain
    /\ train_pc \in 1..Len(PartNames)
    /\ train_open
    /\ artifact' = [artifact EXCEPT ![PartNames[train_pc]] = Written(train_run, "inference")]
    /\ train_open' = FALSE
    /\ train_pc' = IF train_pc = Len(PartNames) THEN 0 ELSE train_pc + 1
    /\ UNCHANGED <<ml_instance, call, result, train_run, load_pc, loading>>

\* get_ml_predictor() finds no instance and calls MLPredictor().
LoadBegin ==
    /\ UNCHANGED notTrain
    /\ load_pc = 0
    /\ ml_instance = NoInstance
    /\ loading' = MLPredictorFresh
    /\ load_pc' = 1
    /\ UNCHANGED <<artifact, ml_instance, call, result, train_run, train_pc, train_open>>

\* The next joblib.load of _load_models; after the last one, or after one
\* that raised, the instance is kept by get_ml_predictor.
LoadPart ==
    /\ UNCHANGED notTrain
    /\ load_pc \in 1..Len(PartNames)
    /\ LET file == artifact[PartNames[load_pc]]
           after == LoadPartFrom(loading, file, load_pc)
           over == file.state # "written" \/ load_pc = Len(PartNames)
       IN  /\ loading' = after
           /\ load_pc' = IF over THEN 0 ELSE load_pc + 1
           /\ ml_instance' = IF over THEN after ELSE ml_instance
    /\ UNCHANGED <<artifact, call, result, train_run, train_pc, train_open>>

TrainNext == SaveModels \/ DumpOpen \/ DumpClose \/ LoadBegin \/ LoadPart \/ Restart

\* Training runs save their bundles while server processes start and load.
InitTrain ==
    PassIdle /\ EloIdle /\ SyncIdle /\ TrainInit /\ TrackIdle
    /\ HistIdle /\ RollIdle
SpecTrain == InitTrain /\ [][TrainNext]_vars

\* C11: a predictor that loaded the bundle while a training run was saving
\* it is never in the loaded state with parts of two different training
\* runs: it holds the complete old bundle or the complete new one.
C11_LoadedBundleFromOneRun ==
    (ml_instance # NoInstance /\ ml_instance.models_loaded)
        => PartsOfOneRun(ml_instance)

(***************************************************************************)
(* One TeamTracker: games are recorded in non-decreasing date order, and   *)
(* its schedule features are asked for a game date, as pre_game_state and  *)
(* the defaults of a scheduled game ask them.                              *)
(***************************************************************************)
TrackDates == 1..MaxTrackDate

TrackInit ==
    /\ the_tracker = TeamTracker
    /\ recorded = <<>>
    /\ asked = [date |-> NoDate]

\* tracker.update_after_game(game_date, ...): a home win, 100 to 90,
\* against an opponent at .500 rated 1500.
RecordGame ==
    /\ UNCHANGED notTrack
    /\ Len(recorded) < MaxTrackGames
    /\ \E game_date \in TrackDates :
        /\ game_date >= the_tracker.last_game_date
        /\ the_tracker' = update_after_game(the_tracker, game_date, 100, 90, TRUE, TRUE,
                                            500000, InitialElo * 1000)
        /\ recorded' = Append(recorded, game_date)
    /\ asked' = [date |-> NoDate]

\* tracker.rest_days(game_date), is_b2b(game_date) and is_3in4(game_date)
AskSchedule ==
    /\ UNCHANGED notTrack
    /\ \E game_date \in TrackDates :
        asked' = [date |-> game_date,
                  rest_days |-> rest_days(the_tracker, game_date),
                  is_b2b |-> is_b2b(the_tracker, game_date),
                  is_3in4 |-> is_3in4(the_tracker, game_date)]
    /\ UNCHANGED <<the_tracker, recorded>>

TrackNext == RecordGame \/ AskSchedule

InitTrack ==
    PassIdle /\ EloIdle /\ SyncIdle /\ PredIdle /\ TrainIdle /\ TrackInit
    /\ HistIdle /\ RollIdle
SpecTrack == InitTrack /\ [][TrackNext]_vars

\* C14: the rest days computed for a game date are at least 1 and at most
\* 7, and are 2 or 3 when the team has no prior game.
C14_RestDaysBetween1And7 ==
    asked.date # NoDate =>
        /\ asked.rest_days >= 1 /\ asked.rest_days <= 7
        /\ recorded = <<>> => asked.rest_days \in {2, 3}

\* The recorded games that fall within the 3 days before game_date.
GamesInThreeDaysBefore(game_date) ==
    {k \in 1..Len(recorded) :
        recorded[k] >= game_date - 3 /\ recorded[k] < game_date}

\* C15: is_3in4(game_date) is true exactly when at least 2 of all the games
\* recorded so far fall within the 3 days before game_date, although only
\* the 7 most recent game dates are kept.
C15_ThreeInFourCountsAllRecordedGames ==
    asked.date # NoDate =>
        (asked.is_3in4 <=> Cardinality(GamesInThreeDaysBefore(asked.date)) >= 2)

(***************************************************************************)
(* _calculate_features run over the HistoricalGame rows of two seasons.    *)
(***************************************************************************)
HistDates == 1..MaxHistDate
\* The season a date falls in: the first three dates are season 1.
SeasonOf(d) == IF d <= 3 THEN 1 ELSE 2
Seasons == {SeasonOf(d) : d \in HistDates}

HistMatchups == {<<"BOS", "ATL">>, <<"ATL", "BOS">>, <<"BOS", "CHI">>}
HistScores == {<<110, 100>>, <<98, 105>>}

\* The rows as _fetch_season or the CSV loader created them: the feature
\* fields at their defaults.
HistoricalGames ==
    {NewFeatures @@ [date |-> d, season |-> SeasonOf(d), home |-> m[1], away |-> m[2],
                     home_score |-> sc[1], away_score |-> sc[2]] :
        d \in HistDates, m \in HistMatchups, sc \in HistScores}

\* HistoricalGame.objects.order_by('date'): rows of one date in any order.
HistGameLists ==
    {l \in UNION {[1..n -> HistoricalGames] : n \in 1..MaxHistGames} :
        \A i, j \in DOMAIN l : i < j => l[i].date <= l[j].date}

HistInit ==
    /\ hist_games \in HistGameLists
    /\ hist_idx = 1
    /\ team_stats = [t \in KnownTeams |-> NewTeamStats]
    /\ h2h_by_season = [season \in Seasons |-> NewH2H]

\* One iteration of `for game in games`.
CalculateFeatures ==
    /\ UNCHANGED notHist
    /\ hist_idx <= Len(hist_games)
    /\ LET game == hist_games[hist_idx]
           home_stats == team_stats[game.home]
           away_stats == team_stats[game.away]
           key == h2h_key(game.home, game.away)
           h2h == h2h_by_season[game.season][key]
           home_won == game.home_score > game.away_score
       IN  /\ hist_games' = [hist_games EXCEPT ![hist_idx] =
                                HistFeatures(game, home_stats, away_stats, h2h)]
           /\ team_stats' = [team_stats EXCEPT
                                ![game.home] = HistAfterGame(home_stats, game.date,
                                                   game.home_score, game.away_score,
                                                   TRUE, home_won),
                                ![game.away] = HistAfterGame(away_stats, game.date,
                                                   game.away_score, game.home_score,
                                                   FALSE, ~home_won)]
           /\ h2h_by_season' = [h2h_by_season EXCEPT ![game.season][key] =
                                    HistAfterH2H(h2h, game)]
    /\ hist_idx' = hist_idx + 1

HistNext == CalculateFeatures

InitHist ==
    PassIdle /\ EloIdle /\ SyncIdle /\ PredIdle /\ TrainIdle /\ TrackIdle
    /\ HistInit /\ RollIdle
SpecHist == InitHist /\ [][HistNext]_vars

\* The rows processed before row i in which team t played, and those of
\* them that t won.
EarlierGamesOf(t, i) == {j \in 1..(i - 1) : t \in {hist_games[j].home, hist_games[j].away}}
HistWinner(game) == IF game.home_score > game.away_score THEN game.home ELSE game.away
EarlierWinsOf(t, i) == {j \in EarlierGamesOf(t, i) : HistWinner(hist_games[j]) = t}

\* The earlier games of the season of row i between its two teams.
EarlierMeetings(i) ==
    {j \in 1..(i - 1) :
        /\ hist_games[j].season = hist_games[i].season
        /\ {hist_games[j].home, hist_games[j].away}
             = {hist_games[i].home, hist_games[i].away}}

\* C21: the h2h_home_wins and h2h_away_wins stored on a game equal the
\* numbers of earlier games of the same season between the same two teams
\* won by this game's home team and by its away team, whichever of them
\* hosted; the first meeting of a pair in a season stores 0 and 0.
C21_H2HCountsEarlierMeetingsOfSeason ==
    \A i \in 1..(hist_idx - 1) :
        LET game == hist_games[i]
            met == EarlierMeetings(i)
        IN  /\ game.h2h_home_wins
                 = Cardinality({j \in met : HistWinner(hist_games[j]) = game.home})
            /\ game.h2h_away_wins
                 = Cardinality({j \in met : HistWinner(hist_games[j]) = game.away})
            /\ met = {} => (game.h2h_home_wins = 0 /\ game.h2h_away_wins = 0)

\* The third meeting of a pair in a season was processed: the two earlier
\* ones had different hosts and each was won by its host, and a tally of
\* 1 and 1 was stored.
C21_Witness ==
    /\ hist_idx = 4
    /\ EarlierMeetings(3) = {1, 2}
    /\ hist_games[1].home = hist_games[3].home
    /\ hist_games[2].home = hist_games[3].away
    /\ HistWinner(hist_games[1]) = hist_games[1].home
    /\ HistWinner(hist_games[2]) = hist_games[2].home
    /\ hist_games[3].h2h_home_wins = 1 /\ hist_games[3].h2h_away_wins = 1

\* What team t scored and allowed in a game it played.
PointsFor(t, game) == IF game.home = t THEN game.home_score ELSE game.away_score
PointsAgainst(t, game) == IF game.home = t THEN game.away_score ELSE game.home_score

\* The ten latest of a set of rows, and the latest.
LastTenOf(S) == {j \in S : Cardinality({k \in S : k > j}) < 10}
LatestOf(S) == CHOOSE j \in S : \A k \in S : k <= j

\* The features of team t for row i, from the rows processed before i only.
EarlierWinPct(t, i) ==
    IF EarlierGamesOf(t, i) = {} THEN Null
    ELSE RoundHalfEven(Cardinality(EarlierWinsOf(t, i)) * 1000,
                       Cardinality(EarlierGamesOf(t, i)))
EarlierPpg(t, i) ==
    LET last == LastTenOf(EarlierGamesOf(t, i))
    IN  IF last = {} THEN Null
        ELSE RoundHalfEven(
                 SumSeq([k \in 1..(i - 1) |->
                            IF k \in last THEN PointsFor(t, hist_games[k]) ELSE 0]) * 10,
                 Cardinality(last))
EarlierPapg(t, i) ==
    LET last == LastTenOf(EarlierGamesOf(t, i))
    IN  IF last = {} THEN Null
        ELSE RoundHalfEven(
                 SumSeq([k \in 1..(i - 1) |->
                            IF k \in last THEN PointsAgainst(t, hist_games[k]) ELSE 0]) * 10,
                 Cardinality(last))
EarlierStreak(t, i) ==
    LET S == EarlierGamesOf(t, i)
        W == EarlierWinsOf(t, i)
    IN  IF S = {} THEN 0
        ELSE LET won == LatestOf(S) \in W
                 run == {j \in S : \A k \in S : k >= j => ((k \in W) = won)}
             IN  IF won THEN Cardinality(run) ELSE -Cardinality(run)
EarlierRestDays(t, i) ==
    LET S == EarlierGamesOf(t, i)
    IN  IF S = {} THEN NewFeatures.home_rest_days
        ELSE Min(hist_games[i].date - hist_games[LatestOf(S)].date, 7)
EarlierHomeWins(t, i) == {j \in EarlierWinsOf(t, i) : hist_games[j].home = t}
EarlierHomeLosses(t, i) ==
    {j \in EarlierGamesOf(t, i) \ EarlierWinsOf(t, i) : hist_games[j].home = t}
EarlierAwayWins(t, i) == {j \in EarlierWinsOf(t, i) : hist_games[j].away = t}
EarlierAwayLosses(t, i) ==
    {j \in EarlierGamesOf(t, i) \ EarlierWinsOf(t, i) : hist_games[j].away = t}

\* C22: every feature saved on a game (win percentages, last-10 points
\* scored and allowed, streaks, rest days, home-at-home and away-on-road
\* records) is what the games processed before it give: the game's own
\* result is in none of them.
C22_FeaturesFromEarlierGamesOnly ==
    \A i \in 1..(hist_idx - 1) :
        LET game == hist_games[i]
        IN  /\ game.home_win_pct = EarlierWinPct(game.home, i)
            /\ game.away_win_pct = EarlierWinPct(game.away, i)
            /\ game.home_ppg_l10 = EarlierPpg(game.home, i)
            /\ game.away_ppg_l10 = EarlierPpg(game.away, i)
            /\ game.home_papg_l10 = EarlierPapg(game.home, i)
            /\ game.away_papg_l10 = EarlierPapg(game.away, i)
            /\ game.home_streak = EarlierStreak(game.home, i)
            /\ game.away_streak = EarlierStreak(game.away, i)
            /\ game.home_rest_days = EarlierRestDays(game.home, i)
            /\ game.away_rest_days = EarlierRestDays(game.away, i)
            /\ game.home_home_wins = Cardinality(EarlierHomeWins(game.home, i))
            /\ game.home_home_losses = Cardinality(EarlierHomeLosses(game.home, i))
            /\ game.away_away_wins = Cardinality(EarlierAwayWins(game.away, i))
            /\ game.away_away_losses = Cardinality(EarlierAwayLosses(game.away, i))

\* The home team of the third row lost the first and won the second, and
\* won the third as well: the row holds a winning percentage of .500, a
\* streak of 1 and the averages and rest days of the two earlier games.
C22_Witness ==
    /\ hist_idx = 4
    /\ EarlierGamesOf(hist_games[3].home, 3) = {1, 2}
    /\ EarlierWinsOf(hist_games[3].home, 3) = {2}
    /\ HistWinner(hist_games[3]) = hist_games[3].home
    /\ hist_games[3].home_win_pct = 500
    /\ hist_games[3].home_streak = 1
    /\ hist_games[3].home_ppg_l10 # Null
    /\ hist_games[3].home_rest_days = hist_games[3].date - hist_games[2].date

(***************************************************************************)
(* One team's results, one a day, recorded by a TeamTracker                *)
(* (update_after_game) and by the team's entry of team_stats               *)
(* (_calculate_features).                                                  *)
(***************************************************************************)
RollInit ==
    /\ roll_tracker = TeamTracker
    /\ roll_stats = NewTeamStats
    /\ roll_results = <<>>

\* A home game of the team is processed by both: won 110 to 100 or lost
\* 98 to 105, against an opponent at .500 rated 1500.
RollGame ==
    /\ UNCHANGED notRoll
    /\ Len(roll_results) < MaxRollGames
    /\ \E won \in BOOLEAN :
        LET date == Len(roll_results) + 1
            scored == IF won THEN 110 ELSE 98
            allowed == IF won THEN 100 ELSE 105
        IN  /\ roll_tracker' = update_after_game(roll_tracker, date, scored, allowed,
                                                 TRUE, won, 500000, InitialElo * 1000)
            /\ roll_stats' = HistAfterGame(roll_stats, date, scored, allowed, TRUE, won)
            /\ roll_results' = Append(roll_results,
                                      [date |-> date, scored |-> scored,
                                       allowed |-> allowed, won |-> won])

RollNext == RollGame

InitRoll ==
    PassIdle /\ EloIdle /\ SyncIdle /\ PredIdle /\ TrainIdle /\ TrackIdle
    /\ HistIdle /\ RollInit
SpecRoll == InitRoll /\ [][RollNext]_vars

\* The result that stands at place k of a rolling history of length len.
RecentResult(len, k) == roll_results[Len(roll_results) - len + k]

\* C25: after any sequence of recorded games the rolling histories respect
\* their capacities and hold the most recent entries in order:
\* last_10_results, recent_scores and recent_allowed have length
\* min(games recorded, 10), the last two always the same length,
\* game_dates has length at most 7 and the historical recent_games at
\* most 15.
C25_RollingHistoriesCapped ==
    LET n == Len(roll_results)
        t == roll_tracker
        recent == roll_stats.recent_games
    IN  /\ Len(t.last_10_results) = Min(n, 10)
        /\ Len(t.recent_scores) = Min(n, 10)
        /\ Len(t.recent_allowed) = Len(t.recent_scores)
        /\ Len(t.game_dates) <= 7
        /\ Len(recent) <= 15
        /\ \A k \in 1..Len(t.last_10_results) :
             t.last_10_results[k] = (IF RecentResult(Len(t.last_10_results), k).won
                                     THEN 1 ELSE 0)
        /\ \A k \in 1..Len(t.recent_scores) :
             /\ t.recent_scores[k] = RecentResult(Len(t.recent_scores), k).scored
             /\ t.recent_allowed[k] = RecentResult(Len(t.recent_scores), k).allowed
        /\ \A k \in 1..Len(t.game_dates) :
             t.game_dates[k] = RecentResult(Len(t.game_dates), k).date
        /\ \A k \in 1..Len(recent) : recent[k] = RecentResult(Len(recent), k)
        /\ (n >= 7 => Len(t.game_dates) = 7) /\ (n >= 15 => Len(recent) = 15)

\* Sixteen games were recorded, the first lost and the last won: every
\* history is at its capacity and has dropped entries.
C25_Witness ==
    /\ Len(roll_results) = 16
    /\ ~roll_results[1].won /\ roll_results[16].won
    /\ Len(roll_tracker.last_10_results) = 10
    /\ Len(roll_tracker.game_dates) = 7
    /\ Len(roll_stats.recent_games) = 15

\* The results at the end of roll_results that equal the last one.
LatestRun ==
    {j \in 1..Len(roll_results) :
        \A k \in j..Len(roll_results) :
            roll_results[k].won = roll_results[Len(roll_results)].won}

\* C26: the current streak is +k when the last k results were wins
\* (preceded by a loss or by nothing) and -k when they were losses; it is
\* never 0 once a game has been recorded, and the tracker and the
\* historical pass hold the same streak for the same results.
C26_StreakIsLatestRun ==
    /\ roll_results = <<>> => roll_tracker.current_streak = 0
    /\ roll_results # <<>> =>
         /\ roll_tracker.current_streak
              = (IF roll_results[Len(roll_results)].won
                 THEN Cardinality(LatestRun) ELSE -Cardinality(LatestRun))
         /\ roll_tracker.current_streak # 0
    /\ roll_stats.streak = roll_tracker.current_streak

\* Three wins in a row came after two losses in a row: both hold +3.
C26_Witness ==
    /\ Len(roll_results) = 5
    /\ ~roll_results[1].won /\ ~roll_results[2].won
    /\ roll_results[3].won /\ roll_results[4].won /\ roll_results[5].won
    /\ roll_tracker.current_streak = 3
    /\ roll_stats.streak = 3

(***************************************************************************)
(* Further properties of the predictions (SpecPredict).                    *)
(***************************************************************************)
\* The Heuristic Model was called for two teams with no recorded game and
\* no schedule or head-to-head history.
ZeroHistoryCall ==
    /\ HeuristicCall
    /\ call.home_team = DefaultTeam /\ call.away_team = DefaultTeam
    /\ call.game \in {NoGame, NewGameRow}

\* C16: for two teams with zero recorded games the Heuristic Model returns
\* the 54% home-court baseline: the home-court component alone differs
\* from 0.5, every other component is a neutral 0.5.
C16_ZeroHistoryIsHomeCourtBaseline ==
    ZeroHistoryCall =>
        LET components == Components(call.home_team, call.away_team,
                                     call.game_date, call.game)
        IN  /\ Len(result) = 5
            /\ result[1] = 5400
            /\ \A k \in 1..9 : k # 4 => components[k] = 500000

\* The Heuristic Model was called for the 10-2 home side against the 4-8
\* visitor, the home side on 2 days rest and the visitor on a back-to-back.
ExampleCall ==
    /\ HeuristicCall
    /\ call.home_team = HomeExample /\ call.away_team = AwayExample
    /\ call.game = AwayBackToBackRow

\* C17: for that matchup the Heuristic Model returns a home win probability
\* above 65%, a positive spread and a home score above the away score.
C17_ExampleFavoursHome ==
    ExampleCall =>
        /\ result[1] > 6500
        /\ result[3] > 0
        /\ result[4] > result[5]

\* The team has fewer than 20 games of history.
FewGames(team) == team.wins + team.losses < 20

\* C19: whenever either team has fewer than 20 games of history, the factor
\* the Heuristic Model applies to the combined confidence before clamping
\* it to [40, 92] is strictly below 1.
C19_ShortHistoryScalesConfidenceDown ==
    (HeuristicCall /\ (FewGames(call.home_team) \/ FewGames(call.away_team)))
        => data_factor(call.home_team, call.away_team) < 1000

\* The predictor holds a loaded bundle whose parts come from different
\* training runs, or were fitted on another feature list than the one
\* inference builds.
MismatchedInstance(inst) ==
    /\ inst.models_loaded
    /\ \/ ~PartsOfOneRun(inst)
       \/ \E k \in 1..Len(PartNames) : inst[PartNames[k]].features # "inference"

\* C20: with a bundle whose parts do not match each other or the inference
\* feature vector, predict_game returns the Heuristic Model's prediction:
\* the bundle is never used for a learned prediction and no exception
\* reaches the caller.
C20_MismatchedBundleFallsBack ==
    (call.via = "predict_game" /\ MismatchedInstance(call.instance)) =>
        /\ Len(result) = 5
        /\ result = NBAPredictor_predict_game(call.home_team, call.away_team,
                                              call.game_date, call.game)

\* The process keeps the predictor it has: no step replaces one instance by
\* another.
InstanceKept ==
    (ml_instance # NoInstance /\ ml_instance' # NoInstance) => ml_instance' = ml_instance

\* C30: get_ml_predictor builds the predictor, and tries to load the
\* bundle, at most once per process: every call returns the instance the
\* process holds, and when its load failed a predict_game call returns the
\* Heuristic Model's prediction, also when a valid bundle is on disk by then.
C30_PredictorBuiltOncePerProcess ==
    /\ [][InstanceKept]_vars
    /\ [](call.via = "predict_game" =>
            /\ call.instance = ml_instance
            /\ ~ml_instance.models_loaded =>
                 result = NBAPredictor_predict_game(call.home_team, call.away_team,
                                                    call.game_date, call.game))

\* The process built its predictor when the load failed; a valid bundle is
\* on disk now, and predict_game answered with the Heuristic Model.
C30_Witness ==
    /\ call.via = "predict_game"
    /\ artifact = ValidBundle
    /\ _load_models(artifact).models_loaded
    /\ ~ml_instance.models_loaded
    /\ result = NBAPredictor_predict_game(call.home_team, call.away_team,
                                          call.game_date, call.game)

=============================================================================
